---- MODULE Spec2Model ----
(***************************************************************************)
(* Model of the weasel event pipeline (src/src/event.rs), the round state  *)
(* machine (src/src/round.rs), the object events (src/src/object.rs) and   *)
(* the entropy reset event (src/src/entropy.rs).                           *)
(*                                                                         *)
(* Option<T> values are sets with at most one element: None is {} and      *)
(* Some(x) is {x}.  A Vec is a sequence; Rust's 0-based index i is the     *)
(* TLA+ index i + 1.                                                       *)
(***************************************************************************)
EXTENDS Integers, Sequences, FiniteSets, TLC

\* ------------------------------------------------------------------------
\* Bounds of the model.
\* ------------------------------------------------------------------------
\* Largest number of events committed in one behaviour.
MaxHistory == 4
\* Largest number of prototypes the rule callbacks of one apply enqueue.
MaxQueue == 2
\* Largest number of round events committed in one behaviour.
MaxRoundEvents == 3
\* Largest number of decorators stacked on one trigger.
MaxDecorators == 2
\* Largest number of events committed from decorated triggers.
MaxFired == 2
\* Number of distinct sink ids (0 .. MaxSinks - 1).
MaxSinks == 2
\* Largest event id named in a range request, and largest history a range
\* is requested against.
MaxRange == 2
\* Largest number of calls of Entropy::generate in one behaviour.
MaxCalls == 2
\* Largest number of events committed between the calls of generate.
MaxResets == 2
\* Largest maximum duration of an inflicted status.
MaxDuration == 2
\* Largest number of rounds started after a status was inflicted.
MaxCycles == 3

\* ------------------------------------------------------------------------
\* Values.
\* ------------------------------------------------------------------------
None == {}
Some(x) == {x}

\* Entity ids: creature ids are actor-capable, object ids are not.
CreatureIds == {"c1", "c2", "c9"}
ObjectIds == {"o1"}
EntityIds == CreatureIds \cup ObjectIds
\* The creature of the test scenario (one team, one creature).
ScenarioActors == {"c1"}

\* An origin given explicitly through the Originated decorator.
ForcedOrigin == 42
\* The origin given to the Originated decorator stacked on a Conditional.
StackedOrigin == 0
\* A seed given explicitly to a reset trigger.
GivenSeed == 5
\* The value the statistic of a character is generated with, and the
\* intensity of the status of the test scenario.
STATISTIC_VALUE == 10
STATUS_INTENSITY == 5
\* The bounds of the ranges asked of the entropy.
LowBound == 1
HighBound == 5
\* The model generated when no seed is given.
DEFAULT_SEED == 3

SinkIds == 0 .. (MaxSinks - 1)

\* The teams of a battle and the players of the remote clients.
TeamIds == {"t1", "t2"}
Players == {"p0", "p1", "p2"}
\* The version of the battle rules.
RulesVersion == "v1"

EventKinds ==
    {"DummyEvent", "StartRound", "EndRound", "EnvironmentRound",
     "ResetRounds", "ResetEntropy", "CreateObject", "RemoveObject",
     "InflictStatus", "ClearStatus", "AlterStatistics"}

\* Conditions are predicates over the battle state, named here.
ConditionNames == {"IsReady", "IsStarted"}

SeqsUpTo(S, n) == UNION {[1 .. k -> S] : k \in 0 .. n}

Range(s) == {s[i] : i \in 1 .. Len(s)}

\* ------------------------------------------------------------------------
\* Prototypes, wrappers and trigger decorators (src/src/event.rs).
\* ------------------------------------------------------------------------
\* The payload of an event: its kind and the fields of the concrete event.
Event(kind, ids, oid, seed) ==
    [kind |-> kind, ids |-> ids, oid |-> oid, seed |-> seed]

DummyEvent == Event("DummyEvent", <<>>, "", None)
StartRound(ids) == Event("StartRound", ids, "", None)
EndRound == Event("EndRound", <<>>, "", None)
EnvironmentRound == Event("EnvironmentRound", <<>>, "", None)
ResetRounds(seed) == Event("ResetRounds", <<>>, "", seed)
ResetEntropy(seed) == Event("ResetEntropy", <<>>, "", seed)
CreateObject(oid) == Event("CreateObject", <<>>, oid, None)
RemoveObject(oid) == Event("RemoveObject", <<>>, oid, None)
\* The events on the status of a character: the potency of the test rules
\* is a pair of intensity and maximum duration.
InflictStatus(id, intensity, duration) ==
    [kind |-> "InflictStatus", id |-> id,
     potency |-> [intensity |-> intensity, duration |-> duration]]
ClearStatus(id) == [kind |-> "ClearStatus", id |-> id]
AlterStatistics(id, alteration) ==
    [kind |-> "AlterStatistics", id |-> id, alteration |-> alteration]

\* EventPrototype::new: no origin, no condition.  The fields by, seq, own and
\* at are bookkeeping of the model, not fields of the Rust struct: the event
\* whose apply fired the prototype (none for a caller), its rank among the
\* prototypes fired by that apply, the origin it carried when it was fired
\* and the value its condition had at that moment.
NewPrototype(event) ==
    [event |-> event, origin |-> None, condition |-> None,
     by |-> None, seq |-> 0, own |-> None, at |-> TRUE]

\* Conditional::prototype: the inner prototype with the condition set.
Conditional(prototype, condition) ==
    [prototype EXCEPT !.condition = Some(condition)]

OriginatedRebuilds(prototype, origin) ==
    [origin |-> Some(origin), event |-> prototype.event, condition |-> None,
     by |-> prototype.by, seq |-> prototype.seq, own |-> prototype.own,
     at |-> prototype.at]

\* Originated::prototype: the inner prototype with the origin overwritten.
Originated(prototype, origin) ==
    [prototype EXCEPT !.origin = Some(origin)]

\* A decorator wrapped around a trigger: Conditional with its condition or
\* Originated with its origin.
Decorator(kind, value) == [kind |-> kind, value |-> value]

Decorators ==
    {Decorator("Conditional", c) : c \in ConditionNames}
    \cup {Decorator("Originated", o) : o \in {StackedOrigin, ForcedOrigin}}

\* EventTrigger::prototype of a trigger wrapped in decorators, innermost
\* first: the event's trigger builds a new prototype and each decorator
\* takes the prototype of the trigger it wraps and sets its own field.
RECURSIVE TriggerPrototype(_, _)
TriggerPrototype(event, decorators) ==
    IF decorators = <<>> THEN NewPrototype(event)
    ELSE LET inner == TriggerPrototype(event,
                          SubSeq(decorators, 1, Len(decorators) - 1))
             outer == decorators[Len(decorators)]
         IN  IF outer.kind = "Conditional"
             THEN Conditional(inner, outer.value)
             ELSE Originated(inner, outer.value)

PromoteOffByOne(prototype, id) ==
    [id |-> id + 1, origin |-> prototype.origin, event |-> prototype.event]

\* EventPrototype::promote: the wrapper takes the given id and keeps the
\* prototype's origin and event; the condition is not part of a wrapper.
promote(prototype, id) ==
    [id |-> id, origin |-> prototype.origin, event |-> prototype.event]

\* ClientEventPrototype::new
NewClientPrototype(origin, event, version, player) ==
    [origin |-> origin, event |-> event, version |-> version,
     player |-> player]

\* EventPrototype::client_prototype: a client prototype with the origin
\* and the event of the prototype; the condition is left behind.
client_prototype(prototype, version, player) ==
    NewClientPrototype(prototype.origin, prototype.event, version, player)

\* ClientEventPrototype::authenticate: the prototype carries the player.
authenticate(client, player) == [client EXCEPT !.player = Some(player)]

ClientPrototypeDropsOrigin(client) == NewPrototype(client.event)

\* ClientEventPrototype::prototype: an event prototype with the origin and
\* the event of the client prototype and no condition.
ClientPrototype(client) ==
    [NewPrototype(client.event) EXCEPT !.origin = client.origin]

EventQueuePushFront(queue, prototype) == <<prototype>> \o queue

PrioritizedPushBack(items, prototype) == Append(items, prototype)

\* Prioritized::process: insert at index 0.
PrioritizedProcess(items, prototype) == <<prototype>> \o items

\* EventQueue::process: push at the back.
EventQueueProcess(queue, prototype) == Append(queue, prototype)

LinkedQueueFillsNothing(queue, origin, prototype) ==
    EventQueueProcess(queue, prototype)

LinkedQueueOverwrite(queue, origin, prototype) ==
    EventQueueProcess(queue, [prototype EXCEPT !.origin = origin])

\* LinkedQueue::process: back-fill the origin only when it is none, then
\* push at the back.
LinkedQueueProcess(queue, origin, prototype) ==
    IF prototype.origin = None
    THEN EventQueueProcess(queue, [prototype EXCEPT !.origin = origin])
    ELSE EventQueueProcess(queue, prototype)

\* An event processor a trigger fires into: the plain event queue, or the
\* queue behind a Prioritized or a LinkedQueue decorator with its origin.
Processor(kind, origin) == [kind |-> kind, origin |-> origin]

\* EventProcessor::process of the processor on the items of the queue.
ProcessInto(processor, items, prototype) ==
    CASE processor.kind = "EventQueue" ->
            EventQueueProcess(items, prototype)
      [] processor.kind = "Prioritized" ->
            PrioritizedProcess(items, prototype)
      [] processor.kind = "LinkedQueue" ->
            LinkedQueueProcess(items, processor.origin, prototype)

\* A condition evaluated on the battle state.
EvalCondition(name, state) ==
    CASE name = "IsReady" -> ~state.rounds.started
      [] name = "IsStarted" -> state.rounds.started

\* ------------------------------------------------------------------------
\* The battle state the events read and write.
\* ------------------------------------------------------------------------
\* RoundState::Ready
Ready == [started |-> FALSE, actors |-> <<>>]
\* RoundState::Started(actors); the IndexSet is a duplicate-free sequence.
Started(actors) == [started |-> TRUE, actors |-> actors]

\* RoundsRules::generate_model and EntropyRules::generate_model of the test
\* rules: the seed, or the default seed when none is given.
generate_model(seed) ==
    IF seed = None THEN DEFAULT_SEED ELSE CHOOSE x \in seed : TRUE

\* Rounds::new and Entropy::new on a battle with one creature and no
\* object: round state Ready, models generated without seed.  The field
\* ineligible is the set of actors the eligible of the round rules rejects:
\* none for the provided implementation.  The field teams gives the team of
\* every actor and the field rights the teams every player controls.  The
\* fields statistic and status are the value of the statistic of every
\* character and the status inflicted on one of them, if any.
NewBattle ==
    [rounds |-> Ready,
     roundsModel |-> generate_model(None),
     entropyModel |-> generate_model(None),
     actors |-> ScenarioActors,
     objects |-> {},
     roundsStarted |-> 0,
     ineligible |-> {},
     teams |-> [actor \in ScenarioActors |-> "t1"],
     rights |-> [player \in Players |-> {}],
     statistic |-> [id \in EntityIds |-> STATISTIC_VALUE],
     status |-> None]

\* EntityId::is_actor
is_actor(id) == id \in CreatureIds

\* RoundsRules::eligible: the provided implementation accepts any actor.
eligible(model, actor) == TRUE

\* Rounds::eligible: the answer of the round rules in use.
RoundsEligible(b, actor) ==
    IF b.ineligible = {} THEN eligible(b.roundsModel, actor)
    ELSE actor \notin b.ineligible

\* RoundState::has_actor
has_actor(state, id) ==
    IF state.started THEN id \in Range(state.actors) ELSE FALSE

\* Rounds::is_acting
is_acting(b, id) == has_actor(b.rounds, id)

IndexSetFromKeepsRepeats(ids) == ids

\* Collecting a list into an IndexSet keeps the first occurrence of each id.
RECURSIVE IndexSetFrom(_)
IndexSetFrom(ids) ==
    IF ids = <<>> THEN <<>>
    ELSE LET init == IndexSetFrom(SubSeq(ids, 1, Len(ids) - 1))
             last == ids[Len(ids)]
         IN  IF last \in Range(init) THEN init ELSE Append(init, last)

\* ------------------------------------------------------------------------
\* Event::verify of every modelled event.
\* ------------------------------------------------------------------------
\* The check of one id of StartRound::verify.
StartRoundCheckId(b, id) ==
    IF ~is_actor(id) THEN "NotAnActor"
    ELSE IF id \in b.actors
         THEN IF ~RoundsEligible(b, id) THEN "ActorNotEligible"
              ELSE "Ok"
         ELSE "EntityNotFound"

RECURSIVE StartRoundCheckIdsLastFirst(_, _)
StartRoundCheckIdsLastFirst(b, ids) ==
    IF ids = <<>> THEN "Ok"
    ELSE LET r == StartRoundCheckIdsLastFirst(b, Tail(ids))
         IN  IF r # "Ok" THEN r ELSE StartRoundCheckId(b, Head(ids))

RECURSIVE StartRoundCheckIds(_, _)
StartRoundCheckIds(b, ids) ==
    IF ids = <<>> THEN "Ok"
    ELSE LET r == StartRoundCheckId(b, Head(ids))
         IN  IF r # "Ok" THEN r ELSE StartRoundCheckIds(b, Tail(ids))

StartRoundVerifyNeedsActors(b, e) ==
    IF b.rounds.started THEN "RoundInProgress"
    ELSE IF e.ids = <<>> THEN "EntityNotFound"
    ELSE StartRoundCheckIds(b, e.ids)

StartRoundVerifyAnyState(b, e) == StartRoundCheckIds(b, e.ids)

StartRoundVerify(b, e) ==
    IF b.rounds.started THEN "RoundInProgress"
    ELSE StartRoundCheckIds(b, e.ids)

EndRoundVerifyAnyState(b, e) == "Ok"

EndRoundVerify(b, e) ==
    IF ~b.rounds.started THEN "NoRoundInProgress" ELSE "Ok"

ResetRoundsVerifyAnyState(b, e) == "Ok"

ResetRoundsVerify(b, e) ==
    IF b.rounds.started THEN "RoundInProgress" ELSE "Ok"

EnvironmentRoundVerifyAnyState(b, e) == "Ok"

EnvironmentRoundVerify(b, e) ==
    IF b.rounds.started THEN "RoundInProgress" ELSE "Ok"

ResetEntropyVerifyWhenReady(b, e) ==
    IF b.rounds.started THEN "RoundInProgress" ELSE "Ok"

ResetEntropyVerify(b, e) == "Ok"

DummyEventVerify(b, e) == "Ok"

\* The space rules of the scenario accept every position.
CreateObjectVerify(b, e) ==
    IF e.oid \in b.objects THEN "DuplicatedObject" ELSE "Ok"

RemoveObjectVerify(b, e) ==
    IF e.oid \notin b.objects THEN "ObjectNotFound" ELSE "Ok"

\* The entity is a character of the battle.
IsCharacter(b, id) == id \in b.actors \cup b.objects

InflictStatusVerify(b, e) ==
    IF IsCharacter(b, e.id) THEN "Ok" ELSE "EntityNotFound"

ClearStatusVerify(b, e) ==
    IF ~IsCharacter(b, e.id) THEN "EntityNotFound"
    ELSE IF \E status \in b.status : status.entity = e.id THEN "Ok"
    ELSE "StatusNotPresent"

AlterStatisticsVerify(b, e) ==
    IF IsCharacter(b, e.id) THEN "Ok" ELSE "EntityNotFound"

\* Dynamic dispatch of Event::verify.
verify(b, e) ==
    CASE e.kind = "DummyEvent" -> DummyEventVerify(b, e)
      [] e.kind = "StartRound" -> StartRoundVerify(b, e)
      [] e.kind = "EndRound" -> EndRoundVerify(b, e)
      [] e.kind = "EnvironmentRound" -> EnvironmentRoundVerify(b, e)
      [] e.kind = "ResetRounds" -> ResetRoundsVerify(b, e)
      [] e.kind = "ResetEntropy" -> ResetEntropyVerify(b, e)
      [] e.kind = "CreateObject" -> CreateObjectVerify(b, e)
      [] e.kind = "RemoveObject" -> RemoveObjectVerify(b, e)
      [] e.kind = "InflictStatus" -> InflictStatusVerify(b, e)
      [] e.kind = "ClearStatus" -> ClearStatusVerify(b, e)
      [] e.kind = "AlterStatistics" -> AlterStatisticsVerify(b, e)

\* ------------------------------------------------------------------------
\* Event::apply of every modelled event: the new battle state.  The
\* prototypes the rule callbacks enqueue are chosen by the caller.
\* ------------------------------------------------------------------------
\* update_statuses: the duration of every status of the entities grows by
\* one.
update_statuses(b, ids) ==
    [b EXCEPT !.status =
        {IF status.entity \in ids
         THEN [status EXCEPT !.duration = @ + 1]
         ELSE status : status \in @}]

StartRoundApply(b, e) ==
    update_statuses([b EXCEPT !.rounds = Started(IndexSetFrom(e.ids)),
                              !.roundsStarted = @ + 1],
                    Range(e.ids))

EndRoundApplyStaysStarted(b, e) == b

EndRoundApply(b, e) == [b EXCEPT !.rounds = Ready]

ResetRoundsApply(b, e) == [b EXCEPT !.roundsModel = generate_model(e.seed)]

EnvironmentRoundApplyUncounted(b, e) == b

EnvironmentRoundApply(b, e) ==
    update_statuses([b EXCEPT !.roundsStarted = @ + 1], b.objects)

ResetEntropyApplyKeepsUnseeded(b, e) ==
    IF e.seed = None THEN b
    ELSE [b EXCEPT !.entropyModel = generate_model(e.seed)]

ResetEntropyApply(b, e) ==
    [b EXCEPT !.entropyModel = generate_model(e.seed)]

DummyEventApply(b, e) == b

CreateObjectApply(b, e) == [b EXCEPT !.objects = @ \cup {e.oid}]

RemoveObjectApply(b, e) == [b EXCEPT !.objects = @ \ {e.oid}]

\* CharacterRules::generate_status of the test rules: a status with the
\* intensity and the maximum duration of the potency.
generate_status(id, potency) ==
    [entity |-> id, effect |-> potency.intensity, duration |-> 0,
     max_duration |-> Some(potency.duration)]

\* The status replaces the status of the character, if any.
InflictStatusApply(b, e) ==
    [b EXCEPT !.status = Some(generate_status(e.id, e.potency))]

ClearStatusApply(b, e) == [b EXCEPT !.status = None]

\* CharacterRules::alter_statistics of the test rules: the statistic takes
\* the value of the alteration, kept between 0 and ten times the initial
\* value.
AlterStatisticsApply(b, e) ==
    [b EXCEPT !.statistic[e.id] =
        IF e.alteration < 0 THEN 0
        ELSE IF e.alteration > STATISTIC_VALUE * 10 THEN STATISTIC_VALUE * 10
        ELSE e.alteration]

\* Dynamic dispatch of Event::apply.
apply(b, e) ==
    CASE e.kind = "DummyEvent" -> DummyEventApply(b, e)
      [] e.kind = "StartRound" -> StartRoundApply(b, e)
      [] e.kind = "EndRound" -> EndRoundApply(b, e)
      [] e.kind = "EnvironmentRound" -> EnvironmentRoundApply(b, e)
      [] e.kind = "ResetRounds" -> ResetRoundsApply(b, e)
      [] e.kind = "ResetEntropy" -> ResetEntropyApply(b, e)
      [] e.kind = "CreateObject" -> CreateObjectApply(b, e)
      [] e.kind = "RemoveObject" -> RemoveObjectApply(b, e)
      [] e.kind = "InflictStatus" -> InflictStatusApply(b, e)
      [] e.kind = "ClearStatus" -> ClearStatusApply(b, e)
      [] e.kind = "AlterStatistics" -> AlterStatisticsApply(b, e)

\* ------------------------------------------------------------------------
\* Event::rights of every modelled event.
\* ------------------------------------------------------------------------
\* EventRights: None, Server, Team(team) and Teams(Vec of teams).
RightsNone == [kind |-> "None", teams |-> <<>>]
RightsServer == [kind |-> "Server", teams |-> <<>>]
RightsTeam(team) == [kind |-> "Team", teams |-> <<team>>]
RightsTeams(teams) == [kind |-> "Teams", teams |-> teams]

\* Actor::team_id of the actor with this id.
team_id(b, id) == b.teams[id]

DefaultRightsNone(b, e) == RightsNone

\* Event::rights, the provided implementation.
DefaultRights(b, e) == RightsServer

\* DummyEvent::rights
DummyEventRights(b, e) == RightsNone

StartRoundRightsOncePerTeam(b, e) ==
    RightsTeams(IndexSetFrom([i \in 1 .. Len(e.ids) |->
                                 team_id(b, e.ids[i])]))

\* StartRound::rights: the team of the actor of every id, in list order.
StartRoundRights(b, e) ==
    RightsTeams([i \in 1 .. Len(e.ids) |-> team_id(b, e.ids[i])])

\* EndRound::rights: the team of every actor of the Started state, in the
\* order of the set.
EndRoundRights(b, e) ==
    RightsTeams([i \in 1 .. Len(b.rounds.actors) |->
                    team_id(b, b.rounds.actors[i])])

\* StartRound::rights panics on the first id that names no actor of the
\* battle.
StartRoundRightsPanics(b, e) ==
    \E i \in 1 .. Len(e.ids) : e.ids[i] \notin b.actors

\* EndRound::rights panics when the round state is not Started, and on the
\* first actor of the Started state that the battle does not have.
EndRoundRightsPanics(b, e) ==
    \/ ~b.rounds.started
    \/ \E i \in 1 .. Len(b.rounds.actors) : b.rounds.actors[i] \notin b.actors

\* Whether Event::rights panics instead of returning rights.
RightsPanics(b, e) ==
    CASE e.kind = "StartRound" -> StartRoundRightsPanics(b, e)
      [] e.kind = "EndRound" -> EndRoundRightsPanics(b, e)
      [] OTHER -> FALSE

\* Dynamic dispatch of Event::rights.
rights(b, e) ==
    CASE e.kind = "DummyEvent" -> DummyEventRights(b, e)
      [] e.kind = "StartRound" -> StartRoundRights(b, e)
      [] e.kind = "EndRound" -> EndRoundRights(b, e)
      [] OTHER -> DefaultRights(b, e)

\* The rights check of the server: whether the player satisfies the rights.
\* Nobody but the server satisfies Server; a player satisfies Team and Teams
\* when it controls every team named.
RightsCheck(b, player, required) ==
    CASE required.kind = "None" -> TRUE
      [] required.kind = "Server" -> FALSE
      [] OTHER -> \A i \in 1 .. Len(required.teams) :
                     required.teams[i] \in b.rights[player]

\* Whether the apply of e runs a rule callback that is handed the event
\* queue: StartRound and EndRound run callbacks once per acting actor,
\* EnvironmentRound updates the statuses of every object; the other events
\* ignore the queue.
RunsCallbacks(b, e) ==
    CASE e.kind = "StartRound" -> IndexSetFrom(e.ids) # <<>>
      [] e.kind = "EndRound" -> b.rounds.actors # <<>>
      [] e.kind = "EnvironmentRound" -> b.objects # {}
      [] OTHER -> FALSE

\* ------------------------------------------------------------------------
\* MultiClientSink (src/src/event.rs): the registry is a Vec of sinks.  A
\* sink is its id and whether its transport works, as the Sink of the test
\* multi_client_sink: send fails exactly when ok is false.
\* ------------------------------------------------------------------------
Sink(id, ok) == [id |-> id, ok |-> ok]

MultiClientSinkAddReplaces(reg, sink) ==
    IF \E i \in 1 .. Len(reg) : reg[i].id = sink.id
    THEN [sinks |-> [i \in 1 .. Len(reg) |->
                        IF reg[i].id = sink.id THEN sink ELSE reg[i]],
          result |-> "Ok"]
    ELSE [sinks |-> Append(reg, sink), result |-> "Ok"]

\* MultiClientSink::add
MultiClientSinkAdd(reg, sink) ==
    IF \E i \in 1 .. Len(reg) : reg[i].id = sink.id
    THEN [sinks |-> reg, result |-> "DuplicatedEventSink"]
    ELSE [sinks |-> Append(reg, sink), result |-> "Ok"]

\* Vec::remove(i) with a 0-based index i < len.
VecRemove(v, i) == SubSeq(v, 1, i) \o SubSeq(v, i + 2, Len(v))

\* Vec::iter().position(|e| e.id() == id): the 0-based index of the first
\* sink with that id, or -1 for None.
Position(reg, id) ==
    IF \E i \in 1 .. Len(reg) : reg[i].id = id
    THEN (CHOOSE i \in 1 .. Len(reg) :
             reg[i].id = id /\ \A j \in 1 .. (i - 1) : reg[j].id # id) - 1
    ELSE -1

\* MultiClientSink::remove
MultiClientSinkRemove(reg, id) ==
    LET index == Position(reg, id)
    IN  IF index >= 0 THEN VecRemove(reg, index) ELSE reg

\* First loop of send_all: send is invoked on every sink in registry order
\* and the 0-based indexes of the sinks whose send failed are collected.
RECURSIVE FailedSinksIndex(_, _)
FailedSinksIndex(reg, i) ==
    IF i >= Len(reg) THEN <<>>
    ELSE IF ~reg[i + 1].ok
         THEN <<i>> \o FailedSinksIndex(reg, i + 1)
         ELSE FailedSinksIndex(reg, i + 1)

\* Second loop of send_all: for each collected index, in order, call
\* on_disconnect on self.sinks[i] and remove index i from the Vec.  The
\* indexes were taken before any removal; indexing past the end panics.
RECURSIVE DisconnectFailed(_, _, _)
DisconnectFailed(reg, indexes, disconnected) ==
    IF indexes = <<>>
    THEN [sinks |-> reg, disconnected |-> disconnected, panicked |-> FALSE]
    ELSE LET i == Head(indexes)
         IN  IF i >= Len(reg)
             THEN [sinks |-> reg, disconnected |-> disconnected,
                   panicked |-> TRUE]
             ELSE DisconnectFailed(VecRemove(reg, i), Tail(indexes),
                                   Append(disconnected, reg[i + 1].id))

SinkIdsOf(reg) == [i \in 1 .. Len(reg) |-> reg[i].id]

SendAllSkipFirst(reg) ==
    LET r == DisconnectFailed(reg, FailedSinksIndex(reg, 0), <<>>)
    IN  [sinks |-> r.sinks,
         sent |-> IF reg = <<>> THEN <<>> ELSE Tail(SinkIdsOf(reg)),
         disconnected |-> r.disconnected, panicked |-> r.panicked]

\* MultiClientSink::send_all: the registry afterwards, the ids of the sinks
\* send was invoked on, those on_disconnect was invoked on, and whether the
\* call panicked.
send_all(reg) ==
    LET r == DisconnectFailed(reg, FailedSinksIndex(reg, 0), <<>>)
    IN  [sinks |-> r.sinks, sent |-> SinkIdsOf(reg),
         disconnected |-> r.disconnected, panicked |-> r.panicked]

\* The loop of MultiClientSink::send on the sink at the 0-based index: each
\* event is passed to send in turn; at the first failure on_disconnect is
\* invoked, the sink is removed and the error is returned.  sent lists the
\* invocations of send: the sink and the id of the event.
SendEventsGoesOn(reg, index, events, sent) ==
    LET sink == reg[index + 1]
        all == sent \o [k \in 1 .. Len(events) |->
                          [sink |-> sink.id, event |-> events[k].id]]
    IN  IF events = <<>> \/ sink.ok
        THEN [sinks |-> reg, result |-> "Ok", sent |-> all,
              disconnected |-> <<>>]
        ELSE [sinks |-> VecRemove(reg, index), result |-> "EventSinkError",
              sent |-> all, disconnected |-> <<sink.id>>]

RECURSIVE SendEvents(_, _, _, _)
SendEvents(reg, index, events, sent) ==
    IF events = <<>>
    THEN [sinks |-> reg, result |-> "Ok", sent |-> sent,
          disconnected |-> <<>>]
    ELSE LET sink == reg[index + 1]
             now == Append(sent, [sink |-> sink.id, event |-> Head(events).id])
         IN  IF ~sink.ok
             THEN [sinks |-> VecRemove(reg, index),
                   result |-> "EventSinkError", sent |-> now,
                   disconnected |-> <<sink.id>>]
             ELSE SendEvents(reg, index, Tail(events), now)

MultiClientSinkSendToFirst(reg, id, events) ==
    IF Position(reg, id) < 0
    THEN [sinks |-> reg, result |-> "EventSinkNotFound", sent |-> <<>>,
          disconnected |-> <<>>]
    ELSE SendEvents(reg, 0, events, <<>>)

\* MultiClientSink::send: all the events to the sink with the given id.
MultiClientSinkSend(reg, id, events) ==
    IF Position(reg, id) < 0
    THEN [sinks |-> reg, result |-> "EventSinkNotFound", sent |-> <<>>,
          disconnected |-> <<>>]
    ELSE SendEvents(reg, Position(reg, id), events, <<>>)

NormalizeRangeOffByOne(start, end, history_len) ==
    IF start > end \/ end >= history_len
    THEN [result |-> "InvalidEventRange", start |-> 0, end |-> 0]
    ELSE [result |-> "Ok", start |-> start, end |-> end]

\* normalize_range: the range start .. end (end excluded) of event ids
\* against a history of the given length.
normalize_range(start, end, history_len) ==
    IF start > end \/ end > history_len
    THEN [result |-> "InvalidEventRange", start |-> 0, end |-> 0]
    ELSE [result |-> "Ok", start |-> start, end |-> end]

\* Battle::versioned_events: the events of the history at the 0-based
\* positions start .. end - 1.
versioned_events(events, start, end) == SubSeq(events, start + 1, end)

\* ------------------------------------------------------------------------
\* The server: battle, history, sink registry and the drain of the events
\* generated during apply.
\* ------------------------------------------------------------------------
VARIABLES
    rules,      \* the rules of the battle: what their callbacks fire
    battle,     \* the battle state (rounds, models, entities, metrics)
    history,    \* the committed event wrappers, in commit order
    nextId,     \* the id the next committed event receives
    sinks,      \* the registry of client sinks, in Vec order
    drain,      \* the prototypes process still has to run, next one first
    pc,         \* "idle", "processing" (inside process) or "panicked"
    result,     \* what the last call on the server returned to its caller
    lineage,    \* per committed event: the bookkeeping of its prototype
    broadcast,  \* the last call of send_all: its event and its effects
    refused,    \* the last prototype refused, why, and the next id then
    trigger,    \* the trigger a caller is building: event and decorators
    catchup,    \* the last call of MultiClientSink::send and its effects
    entropy,    \* the entropy rules, the calls of generate and a replica
    calls,      \* the callbacks the last apply invoked, in order
    eventQueue  \* an event queue callers fire into, and the log of the fires

vars == <<rules, battle, history, nextId, sinks, drain, pc, result, lineage,
          broadcast, refused, trigger, catchup, entropy, calls,
          eventQueue>>

NoneRefused == [prototype |-> {}, error |-> "None", nextId |-> -1]

NoBroadcast ==
    [event |-> -1, sent |-> <<>>, disconnected |-> <<>>, panicked |-> FALSE]

NoTrigger == [event |-> {}, decorators |-> <<>>]

NoCatchUp == [sent |-> <<>>, disconnected |-> <<>>]

\* EventQueue::new, and no trigger fired into it yet.
NoQueue == [items |-> <<>>, fires |-> <<>>]

\* ------------------------------------------------------------------------
\* Entropy (src/src/entropy.rs).  An entropy object is its model and its
\* rules; the model of the battle's entropy is battle.entropyModel.
\* ------------------------------------------------------------------------
\* An entropy output that compares with no output, as a floating-point NaN.
NaN == -1
\* What a distribution returns when asked for a value of an empty range.
Undefined == -2

\* The number of states of the generator of the uniform rules.
UniformModulus == 7

\* PartialOrd::partial_cmp on entropy outputs.
partial_cmp(a, b) ==
    IF a = NaN \/ b = NaN THEN "None"
    ELSE IF a < b THEN "Less"
    ELSE IF a > b THEN "Greater"
    ELSE "Equal"

\* EntropyRules::generate of the test rules: the model, which stays.
CustomGenerate(model, low, high) == [model |-> model, output |-> model]

\* EntropyRules::generate of rules that draw from a generator: the
\* generator steps and its new state picks a value of [low, high).
UniformGenerate(model, low, high) ==
    IF low < high
    THEN LET next == (model * 3 + 1) % UniformModulus
         IN  [model |-> next, output |-> low + (next % (high - low))]
    ELSE [model |-> model, output |-> Undefined]

EntropyRulesGenerateClocked(er, model, low, high) ==
    [model |-> model, output |-> model + Len(history)]

\* Dynamic dispatch of EntropyRules::generate.
EntropyRulesGenerate(er, model, low, high) ==
    IF er = "Custom" THEN CustomGenerate(model, low, high)
    ELSE UniformGenerate(model, low, high)

\* Entropy::new
EntropyNew(seed, er) == [model |-> generate_model(seed), rules |-> er]

\* Entropy::regenerate_model
EntropyRegenerateModel(e, seed) == [e EXCEPT !.model = generate_model(seed)]

\* What a call of generate leaves: the model, the output, the arguments it
\* passed to the generate of the rules if it called it, and whether it
\* panicked.
Generated(model, output, called, panicked) ==
    [model |-> model, output |-> output, called |-> called,
     panicked |-> panicked]

EntropyGenerateEqualCallsRules(e, low, high) ==
    LET order == partial_cmp(low, high)
        swapped == EntropyRulesGenerate(e.rules, e.model, high, low)
        straight == EntropyRulesGenerate(e.rules, e.model, low, high)
    IN  CASE order = "Less" ->
               Generated(straight.model, straight.output,
                         Some(<<low, high>>), FALSE)
          [] order = "Greater" ->
               Generated(swapped.model, swapped.output,
                         Some(<<high, low>>), FALSE)
          [] order = "Equal" ->
               Generated(straight.model, low, Some(<<low, high>>), FALSE)
          [] order = "None" -> Generated(e.model, NaN, None, TRUE)

EntropyGenerateGreaterKeepsModel(e, low, high) ==
    LET order == partial_cmp(low, high)
        swapped == EntropyRulesGenerate(e.rules, e.model, high, low)
        straight == EntropyRulesGenerate(e.rules, e.model, low, high)
    IN  CASE order = "Less" ->
               Generated(straight.model, straight.output,
                         Some(<<low, high>>), FALSE)
          [] order = "Greater" ->
               Generated(e.model, swapped.output, Some(<<high, low>>), FALSE)
          [] order = "Equal" -> Generated(e.model, low, None, FALSE)
          [] order = "None" -> Generated(e.model, NaN, None, TRUE)

\* Entropy::generate: the rules generate between the smaller and the
\* larger bound; equal bounds are returned as they are and bounds that do
\* not compare panic.
EntropyGenerate(e, low, high) ==
    LET order == partial_cmp(low, high)
        swapped == EntropyRulesGenerate(e.rules, e.model, high, low)
        straight == EntropyRulesGenerate(e.rules, e.model, low, high)
    IN  CASE order = "Less" ->
               Generated(straight.model, straight.output,
                         Some(<<low, high>>), FALSE)
          [] order = "Greater" ->
               Generated(swapped.model, swapped.output,
                         Some(<<high, low>>), FALSE)
          [] order = "Equal" -> Generated(e.model, low, None, FALSE)
          [] order = "None" -> Generated(e.model, NaN, None, TRUE)

\* No call of generate was made; the replica is a second entropy object
\* built from the same seed, with the outputs it returned, the number of
\* committed events it has been fed and the number of logged calls it has
\* gone through.
NewReplica(seed, er) ==
    [entropy |-> EntropyNew(seed, er), outputs |-> <<>>, applied |-> 0,
     fed |-> 0]

NoEntropy ==
    [rules |-> "Custom", calls |-> <<>>, outputs |-> <<>>, last |-> None,
     replica |-> NewReplica(None, "Custom")]

\* The id lists of the StartRound events a caller submits.
StartRoundLists ==
    {<<>>, <<"c1">>, <<"c1", "c1">>, <<"c9">>, <<"o1">>}

\* The prototypes a caller may submit: events, bare or decorated.
TopPrototypes ==
    {NewPrototype(DummyEvent), NewPrototype(EndRound)}
    \cup {NewPrototype(StartRound(ids)) : ids \in StartRoundLists}
    \cup {Conditional(NewPrototype(e), c) :
            e \in {DummyEvent, StartRound(<<"c1">>), EndRound},
            c \in ConditionNames}
    \cup {Originated(NewPrototype(DummyEvent), ForcedOrigin)}
    \cup {Originated(Conditional(NewPrototype(DummyEvent), c), ForcedOrigin) :
            c \in ConditionNames}

\* The prototypes the callbacks of the rules may fire into the event queue.
CallbackPrototypes ==
    {NewPrototype(DummyEvent), NewPrototype(EndRound),
     Originated(NewPrototype(DummyEvent), ForcedOrigin)}
    \cup {Conditional(NewPrototype(DummyEvent), c) : c \in ConditionNames}

\* Rules whose callbacks fire any of these prototypes, and rules whose
\* callbacks fire dummy events only.
BusyRules == [fires |-> CallbackPrototypes]
QuietRules == [fires |-> {NewPrototype(DummyEvent)}]
\* Rules whose callbacks fire nothing, as the provided implementations.
SilentRules == [fires |-> {}]

\* A server with one client sink whose transport works.
Init ==
    /\ rules = BusyRules
    /\ battle = NewBattle
    /\ history = <<>>
    /\ nextId = 0
    /\ sinks = <<Sink(0, TRUE)>>
    /\ drain = <<>>
    /\ pc = "idle"
    /\ result = "None"
    /\ lineage = <<>>
    /\ broadcast = NoBroadcast
    /\ refused = NoneRefused
    /\ trigger = NoTrigger
    /\ catchup = NoCatchUp
    /\ entropy = NoEntropy
    /\ calls = <<>>
    /\ eventQueue = NoQueue

ConditionIgnored(b, prototype) == "Ok"

ConditionAtEnqueue(b, prototype) ==
    IF prototype.condition # None /\ ~prototype.at
    THEN "ConditionUnsatisfied"
    ELSE "Ok"

ConditionInverted(b, prototype) ==
    IF prototype.condition # None
       /\ EvalCondition(CHOOSE c \in prototype.condition : TRUE, b)
    THEN "ConditionUnsatisfied"
    ELSE "Ok"

ConditionMisreported(b, prototype) ==
    IF prototype.condition # None
       /\ ~EvalCondition(CHOOSE c \in prototype.condition : TRUE, b)
    THEN "EmptyEventProcessor"
    ELSE "Ok"

\* The condition check of the pipeline: a prototype whose condition is false
\* on the current state is refused with ConditionUnsatisfied.
ConditionCheck(b, prototype) ==
    IF prototype.condition # None
       /\ ~EvalCondition(CHOOSE c \in prototype.condition : TRUE, b)
    THEN "ConditionUnsatisfied"
    ELSE "Ok"

VerifySkipped(b, prototype) == ConditionCheck(b, prototype)

\* Steps 1 and 2 of process: the event's verify, then the condition.
verify_prototype(b, prototype) ==
    LET v == verify(b, prototype.event)
    IN  IF v # "Ok" THEN v ELSE ConditionCheck(b, prototype)

\* The state the rule callbacks of an apply see: StartRound sets the round
\* state before its callbacks run, EndRound after them.
CallbackState(b, e) ==
    IF e.kind = "EndRound" THEN b ELSE apply(b, e)

\* The bookkeeping of the prototypes fired during the apply of event id.
Stamp(prototypes, id, state) ==
    [i \in 1 .. Len(prototypes) |->
        [prototypes[i] EXCEPT
            !.by = Some(id), !.seq = i, !.own = prototypes[i].origin,
            !.at = (prototypes[i].condition = None
                    \/ EvalCondition(CHOOSE c \in prototypes[i].condition : TRUE,
                                     state))]]

\* The callbacks fire their triggers one after the other into the event
\* queue, which links every prototype to the event being applied.
RECURSIVE FireAll(_, _, _)
FireAll(queue, origin, prototypes) ==
    IF prototypes = <<>> THEN queue
    ELSE FireAll(LinkedQueueProcess(queue, origin, Head(prototypes)),
                 origin, Tail(prototypes))

Bookkeeping(prototype) ==
    [by |-> prototype.by, seq |-> prototype.seq, own |-> prototype.own,
     at |-> prototype.at]

\* The value process returns: the outcome of the top-level prototype.
Returned(prototype, outcome) ==
    IF prototype.by = None THEN outcome ELSE result

\* How many prototypes the callbacks of the apply of e may fire: none when
\* the apply runs no callback, otherwise at most MaxQueue and no more than
\* the history can still take once the waiting prototypes are counted.
Room(b, e, waiting) ==
    IF ~RunsCallbacks(b, e) THEN 0
    ELSE LET left == MaxHistory - nextId - 1 - Len(waiting)
         IN  IF left < MaxQueue THEN left ELSE MaxQueue

\* CustomFightRules of the status tests.  apply_status alters the statistic
\* to the effect of the status times the initial value.
apply_status(b, status) ==
    <<NewPrototype(AlterStatistics(status.entity,
                                   status.effect * STATISTIC_VALUE))>>

\* update_status alters the statistic to its current value plus one; the
\* status has ended when its duration equals its maximum duration.
UpdateStatusNeverEnds(b, status) ==
    [fired |-> <<NewPrototype(AlterStatistics(status.entity,
                                              b.statistic[status.entity]
                                              + 1))>>,
     terminated |-> FALSE]

update_status(b, status) ==
    [fired |-> <<NewPrototype(AlterStatistics(status.entity,
                                              b.statistic[status.entity]
                                              + 1))>>,
     terminated |-> Some(status.duration) = status.max_duration]

\* delete_status alters the statistic back to the initial value.
delete_status(b, status) ==
    <<NewPrototype(AlterStatistics(status.entity, STATISTIC_VALUE))>>

\* What the update of the statuses of the entities fires, in the state the
\* apply left: the events of update_status, then ClearStatus for a status
\* that has ended.
UpdateStatusesFires(b, ids) ==
    IF \E status \in b.status : status.entity \in ids
    THEN LET status == CHOOSE st \in b.status : TRUE
             updated == update_status(b, status)
         IN  updated.fired
             \o (IF updated.terminated
                 THEN <<NewPrototype(ClearStatus(status.entity))>>
                 ELSE <<>>)
    ELSE <<>>

\* The prototypes the callbacks of the fight rules fire during the apply
\* of e, in the order they are fired.
FightCallbacks(b, e) ==
    CASE e.kind = "InflictStatus" ->
            apply_status(b, generate_status(e.id, e.potency))
      [] e.kind = "ClearStatus" ->
            delete_status(b, CHOOSE st \in b.status : TRUE)
      [] e.kind = "StartRound" ->
            UpdateStatusesFires(apply(b, e), Range(e.ids))
      [] e.kind = "EnvironmentRound" ->
            UpdateStatusesFires(apply(b, e), b.objects)
      [] OTHER -> <<>>

\* Rules whose fight rules are the CustomFightRules of the status tests.
StatusRules == [fires |-> {}, fight |-> "CustomFightRules"]

\* Rules whose actor rules fire an event on the actor when its round
\* starts and when it ends, on top of the fight rules of the status tests.
\* The event is fired under the condition that a round is in progress.
ActorRules ==
    [fires |-> {}, fight |-> "CustomFightRules", actor |-> "FiringActorRules"]

\* The alterations the actor rules ask for at the start and at the end of a
\* round.
RoundStartMark == 1
RoundEndMark == 2

\* One invocation of a callback of the rules by an apply: the callback, the
\* entity it is invoked for, the round state it sees and the prototypes it
\* fires into the event queue, in order.
Call(callback, actor, rounds, fired) ==
    [callback |-> callback, actor |-> actor, rounds |-> rounds,
     fired |-> fired]

\* ActorRules::on_round_start and on_round_end: the provided
\* implementations do nothing.
on_round_start(b, id) ==
    IF "actor" \in DOMAIN rules
    THEN <<Conditional(NewPrototype(AlterStatistics(id, RoundStartMark)),
                       "IsStarted")>>
    ELSE <<>>

on_round_end(b, id) ==
    IF "actor" \in DOMAIN rules
    THEN <<Conditional(NewPrototype(AlterStatistics(id, RoundEndMark)),
                       "IsStarted")>>
    ELSE <<>>

\* The loop of StartRound::apply over the actors left to visit, in the
\* state the apply has reached: on_start of the round rules, on_round_start
\* of the actor rules, then the update of the statuses of the actor.
RECURSIVE StartRoundVisits(_, _)
StartRoundVisits(b, ids) ==
    IF ids = <<>> THEN <<>>
    ELSE LET id == Head(ids)
             updated == update_statuses(b, {id})
         IN  <<Call("on_start", id, b.rounds, <<>>),
               Call("on_round_start", id, b.rounds, on_round_start(b, id)),
               Call("update_statuses", id, updated.rounds,
                    UpdateStatusesFires(updated, {id}))>>
             \o StartRoundVisits(updated, Tail(ids))

\* The state StartRound::apply sets before it visits the actors.
StartRoundSetState(b, e) ==
    [b EXCEPT !.rounds = Started(IndexSetFrom(e.ids)),
              !.roundsStarted = @ + 1]

\* Every callback for every actor before the next callback.
StartRoundCallsByCallback(b, e) ==
    LET set == StartRoundSetState(b, e)
        ids == set.rounds.actors
        updated == update_statuses(set, Range(ids))
    IN  [i \in 1 .. Len(ids) |-> Call("on_start", ids[i], set.rounds, <<>>)]
        \o [i \in 1 .. Len(ids) |->
               Call("on_round_start", ids[i], set.rounds,
                    on_round_start(set, ids[i]))]
        \o [i \in 1 .. Len(ids) |->
               Call("update_statuses", ids[i], set.rounds,
                    UpdateStatusesFires(updated, {ids[i]}))]

\* The callbacks StartRound::apply invokes, in order.
StartRoundCalls(b, e) ==
    LET set == StartRoundSetState(b, e)
    IN  StartRoundVisits(set, set.rounds.actors)

\* The loop of EndRound::apply over the actors left to visit: on_round_end
\* of the actor rules, on_end of the round rules, then the check of the
\* objectives of the teams, which fires nothing under the empty team rules.
RECURSIVE EndRoundVisits(_, _)
EndRoundVisits(b, ids) ==
    IF ids = <<>> THEN <<>>
    ELSE LET id == Head(ids)
         IN  <<Call("on_round_end", id, b.rounds, on_round_end(b, id)),
               Call("on_end", id, b.rounds, <<>>),
               Call("check_objectives", "RoundEnd", b.rounds, <<>>)>>
             \o EndRoundVisits(b, Tail(ids))

\* The round state set to Ready before the actors are visited.
EndRoundCallsAfterReady(b, e) ==
    EndRoundVisits([b EXCEPT !.rounds = Ready], b.rounds.actors)

\* The callbacks EndRound::apply invokes, in order.
EndRoundCalls(b, e) == EndRoundVisits(b, b.rounds.actors)

\* The callbacks EnvironmentRound::apply invokes: the update of the
\* statuses of every object.
RECURSIVE EnvironmentRoundVisits(_, _)
EnvironmentRoundVisits(b, objects) ==
    IF objects = {} THEN <<>>
    ELSE LET id == CHOOSE object \in objects : TRUE
             updated == update_statuses(b, {id})
         IN  <<Call("update_statuses", id, updated.rounds,
                    UpdateStatusesFires(updated, {id}))>>
             \o EnvironmentRoundVisits(updated, objects \ {id})

EnvironmentRoundCalls(b, e) ==
    EnvironmentRoundVisits([b EXCEPT !.roundsStarted = @ + 1], b.objects)

\* The callbacks of the rules the apply of e invokes, in order.
ApplyCalls(b, e) ==
    CASE e.kind = "StartRound" -> StartRoundCalls(b, e)
      [] e.kind = "EndRound" -> EndRoundCalls(b, e)
      [] e.kind = "EnvironmentRound" -> EnvironmentRoundCalls(b, e)
      [] e.kind = "InflictStatus" ->
            <<Call("apply_status", e.id, b.rounds,
                   apply_status(b, generate_status(e.id, e.potency)))>>
      [] e.kind = "ClearStatus" ->
            <<Call("delete_status", e.id, b.rounds,
                   delete_status(b, CHOOSE st \in b.status : TRUE))>>
      [] OTHER -> <<>>

\* The event queue after the calls: what they fired, in the order of the
\* calls.
RECURSIVE Queued(_)
Queued(log) ==
    IF log = <<>> THEN <<>> ELSE Head(log).fired \o Queued(Tail(log))

\* The log of the callbacks of an apply is kept for the rules whose
\* callbacks are known.
CallLog(b, e) ==
    IF "actor" \in DOMAIN rules THEN ApplyCalls(b, e) ELSE <<>>

\* The lists of prototypes the callbacks of the apply of e may fire: what
\* the calls of the apply queued when the actor rules are known, the one
\* list of the fight rules when the rules have them, otherwise any list of
\* prototypes of the rules that fits.
Callbacks(b, e, waiting) ==
    IF "actor" \in DOMAIN rules
    THEN {Queued(ApplyCalls(b, e))}
    ELSE IF "fight" \in DOMAIN rules
    THEN {FightCallbacks(b, e)}
    ELSE SeqsUpTo(rules.fires, Room(b, e, waiting))

\* A caller submits a prototype to the server (EventProcessor::process).
Submit(prototype) ==
    /\ pc = "idle"
    /\ drain' = <<[prototype EXCEPT !.own = prototype.origin]>>
    /\ pc' = "processing"
    /\ result' = "Pending"
    /\ UNCHANGED <<eventQueue, calls, entropy, trigger, catchup, rules, battle,
                   history, nextId, sinks, lineage, broadcast, refused>>

\* A submission while the history has room for its event.
Process(prototype) == nextId < MaxHistory /\ Submit(prototype)

\* One run of verify / condition / apply / commit / broadcast for the next
\* prototype process has to run.  A refused prototype changes nothing, and
\* only the refusal of the submitted prototype is returned to the caller.
\* The prototypes generated by the apply are run before the others, and
\* process returns when none is left.
Run ==
    /\ pc = "processing"
    /\ LET prototype == Head(drain)
           rest == Tail(drain)
           outcome == verify_prototype(battle, prototype)
       IN  IF outcome # "Ok"
           THEN /\ result' = Returned(prototype, outcome)
                /\ drain' = rest
                /\ pc' = IF rest = <<>> THEN "idle" ELSE "processing"
                /\ refused' = [prototype |-> {prototype}, error |-> outcome,
                               nextId |-> nextId]
                /\ UNCHANGED <<eventQueue, calls, entropy, trigger, catchup,
                               rules, battle, history, nextId, sinks, lineage,
                               broadcast>>
           ELSE \E generated \in Callbacks(battle, prototype.event, rest) :
                  LET wrapper == promote(prototype, nextId)
                      fired == Stamp(generated, nextId,
                                     CallbackState(battle, prototype.event))
                      queue == FireAll(<<>>, Some(nextId), fired)
                      sa == send_all(sinks)
                      next == queue \o rest
                  IN  /\ battle' = apply(battle, prototype.event)
                      /\ history' = Append(history, wrapper)
                      /\ lineage' = Append(lineage, Bookkeeping(prototype))
                      /\ nextId' = nextId + 1
                      /\ sinks' = sa.sinks
                      /\ broadcast' =
                            [event |-> wrapper.id, sent |-> sa.sent,
                             disconnected |-> sa.disconnected,
                             panicked |-> sa.panicked]
                      /\ result' = Returned(prototype, "Ok")
                      /\ drain' = next
                      /\ pc' = IF sa.panicked THEN "panicked"
                               ELSE IF next = <<>> THEN "idle"
                               ELSE "processing"
                      /\ calls' = CallLog(battle, prototype.event)
                      /\ UNCHANGED <<eventQueue, entropy, trigger, catchup,
                                     rules, refused>>

\* A remote client submits an event and the server stamps the player on it
\* (EventServer::process_client).  An event that passes verification but
\* whose rights the player does not satisfy is rejected with an
\* authentication error; any other goes through process.  The rights of
\* the event are computed once it passed verification, and the server
\* panics when that computation does.
ProcessClientPrototype(player, received) ==
    /\ pc = "idle"
    /\ nextId < MaxHistory
    /\ LET client == authenticate(received, player)
       IN  IF /\ verify(battle, client.event) = "Ok"
              /\ RightsPanics(battle, client.event)
           THEN /\ pc' = "panicked"
                /\ UNCHANGED <<eventQueue, calls, entropy, trigger, catchup,
                               rules, battle, history, nextId, sinks, drain,
                               result, lineage, broadcast, refused>>
           ELSE IF /\ verify(battle, client.event) = "Ok"
                   /\ \E p \in client.player :
                         ~RightsCheck(battle, p,
                                      rights(battle, client.event))
                THEN /\ result' = "AuthenticationError"
                     /\ UNCHANGED <<eventQueue, calls, entropy, trigger,
                                    catchup, rules, battle, history, nextId,
                                    sinks, drain, pc, lineage, broadcast,
                                    refused>>
                ELSE Process(ClientPrototype(client))

\* A client prototype built from an event alone.
ProcessClient(player, event) ==
    ProcessClientPrototype(player, NewClientPrototype(None, event,
                                                      RulesVersion, None))

\* A client fires the trigger it built at a remote server: the prototype of
\* the trigger is turned into a client prototype, which the server receives
\* and stamps with the player.
FireFromClient(player) ==
    /\ trigger.event # {}
    /\ ProcessClientPrototype(
          player,
          client_prototype(TriggerPrototype(CHOOSE e \in trigger.event : TRUE,
                                            trigger.decorators),
                           RulesVersion, None))

\* A caller asks the entropy of the battle for a value between two bounds
\* (Entropy::generate).  The call is logged with the number of events
\* committed before it.
Generate(low, high) ==
    /\ pc = "idle"
    /\ Len(entropy.calls) < MaxCalls
    /\ LET e == [model |-> battle.entropyModel, rules |-> entropy.rules]
           out == EntropyGenerate(e, low, high)
       IN  IF out.panicked
           THEN /\ pc' = "panicked"
                /\ UNCHANGED <<battle, entropy>>
           ELSE /\ pc' = pc
                /\ battle' = [battle EXCEPT !.entropyModel = out.model]
                /\ entropy' =
                      [entropy EXCEPT
                         !.calls = Append(@, [low |-> low, high |-> high,
                                              at |-> Len(history)]),
                         !.outputs = Append(@, out.output),
                         !.last = Some([before |-> e.model, low |-> low,
                                        high |-> high, out |-> out])]
    /\ UNCHANGED <<eventQueue, calls, trigger, catchup, rules, history, nextId,
                   sinks, drain, result, lineage, broadcast, refused>>

\* The replica is fed the next thing the entropy of the battle was fed: the
\* next logged call of generate once it has seen the events committed
\* before that call, otherwise the next committed event, of which
\* ResetEntropy regenerates its model.
Replay ==
    /\ pc # "panicked"
    /\ LET replica == entropy.replica
           n == Len(replica.outputs)
           k == replica.applied
       IN  IF n < Len(entropy.calls) /\ entropy.calls[n + 1].at = k
           THEN LET call == entropy.calls[n + 1]
                    out == EntropyGenerate(replica.entropy, call.low,
                                           call.high)
                IN  entropy' =
                      [entropy EXCEPT
                         !.replica.entropy.model = out.model,
                         !.replica.outputs = Append(@, out.output),
                         !.replica.fed = @ + 1]
           ELSE /\ k < Len(history)
                /\ LET event == history[k + 1].event
                   IN  entropy' =
                         [entropy EXCEPT
                            !.replica.applied = k + 1,
                            !.replica.entropy =
                               IF event.kind = "ResetEntropy"
                               THEN EntropyRegenerateModel(@, event.seed)
                               ELSE @]
    /\ UNCHANGED <<eventQueue, calls, trigger, catchup, rules, battle, history,
                   nextId, sinks, drain, pc, result, lineage, broadcast,
                   refused>>

\* The replica is fed what the entropy of the battle was fed, but for the
\* calls of generate with equal bounds, which it goes through without
\* making them.
ReplayDistinct ==
    /\ pc # "panicked"
    /\ LET replica == entropy.replica
           n == replica.fed
           k == replica.applied
       IN  IF n < Len(entropy.calls) /\ entropy.calls[n + 1].at = k
           THEN LET call == entropy.calls[n + 1]
                    out == EntropyGenerate(replica.entropy, call.low,
                                           call.high)
                IN  IF call.low = call.high
                    THEN entropy' = [entropy EXCEPT !.replica.fed = n + 1]
                    ELSE entropy' =
                           [entropy EXCEPT
                              !.replica.entropy.model = out.model,
                              !.replica.outputs = Append(@, out.output),
                              !.replica.fed = n + 1]
           ELSE /\ k < Len(history)
                /\ LET event == history[k + 1].event
                   IN  entropy' =
                         [entropy EXCEPT
                            !.replica.applied = k + 1,
                            !.replica.entropy =
                               IF event.kind = "ResetEntropy"
                               THEN EntropyRegenerateModel(@, event.seed)
                               ELSE @]
    /\ UNCHANGED <<eventQueue, calls, trigger, catchup, rules, battle,
                   history, nextId, sinks, drain, pc, result, lineage,
                   broadcast, refused>>

\* MultiClientSinkHandleMut::add_sink
AddSink(sink) ==
    /\ pc = "idle"
    /\ sinks' = MultiClientSinkAdd(sinks, sink).sinks
    /\ result' = MultiClientSinkAdd(sinks, sink).result
    /\ UNCHANGED <<eventQueue, calls, entropy, trigger, catchup, rules, battle,
                   history, nextId, drain, pc, lineage, broadcast, refused>>

\* MultiClientSinkHandleMut::remove_sink
RemoveSink(id) ==
    /\ pc = "idle"
    /\ sinks' = MultiClientSinkRemove(sinks, id)
    /\ UNCHANGED <<eventQueue, calls, entropy, trigger, catchup, rules, battle,
                   history, nextId, drain, pc, result, lineage, broadcast,
                   refused>>

\* The transport of a registered sink breaks: its next send fails.
Break(id) ==
    /\ pc = "idle"
    /\ \E i \in 1 .. Len(sinks) :
          /\ sinks[i].id = id
          /\ sinks[i].ok
          /\ sinks' = [sinks EXCEPT ![i].ok = FALSE]
    /\ UNCHANGED <<eventQueue, calls, entropy, trigger, catchup, rules, battle,
                   history, nextId, drain, pc, result, lineage, broadcast,
                   refused>>

\* The effects of a call that ends in MultiClientSink::send: the
\* invocations of send and of on_disconnect.
CatchUp(outcome) ==
    [sent |-> outcome.sent, disconnected |-> outcome.disconnected]

AddSinkRangeOutcomeAddsFirst(reg, events, sink, start, end) ==
    LET range == normalize_range(start, end, Len(events))
        added == MultiClientSinkAdd(reg, sink)
    IN  IF added.result # "Ok"
        THEN [sinks |-> reg, result |-> added.result, sent |-> <<>>,
              disconnected |-> <<>>]
        ELSE IF range.result # "Ok"
        THEN [sinks |-> added.sinks, result |-> range.result, sent |-> <<>>,
              disconnected |-> <<>>]
        ELSE MultiClientSinkSend(added.sinks, sink.id,
                                 versioned_events(events, range.start,
                                                  range.end))

\* What add_sink_range does on the registry: the range is normalized, the
\* sink is added, then the events of the range are sent to it; the first
\* error ends the call.
AddSinkRangeOutcome(reg, events, sink, start, end) ==
    LET range == normalize_range(start, end, Len(events))
        added == MultiClientSinkAdd(reg, sink)
    IN  IF range.result # "Ok"
        THEN [sinks |-> reg, result |-> range.result, sent |-> <<>>,
              disconnected |-> <<>>]
        ELSE IF added.result # "Ok"
        THEN [sinks |-> reg, result |-> added.result, sent |-> <<>>,
              disconnected |-> <<>>]
        ELSE MultiClientSinkSend(added.sinks, sink.id,
                                 versioned_events(events, range.start,
                                                  range.end))

\* MultiClientSinkHandleMut::add_sink_range
AddSinkRange(sink, start, end) ==
    /\ pc = "idle"
    /\ LET outcome == AddSinkRangeOutcome(sinks, history, sink, start, end)
       IN  /\ sinks' = outcome.sinks
           /\ result' = outcome.result
           /\ catchup' = CatchUp(outcome)
    /\ UNCHANGED <<eventQueue, calls, entropy, trigger, rules, battle, history,
                   nextId, drain, pc, lineage, broadcast, refused>>

\* MultiClientSinkHandleMut::add_sink_from: the range from event_id to the
\* length of the history.
AddSinkFrom(sink, event_id) ==
    /\ pc = "idle"
    /\ LET outcome == AddSinkRangeOutcome(sinks, history, sink, event_id,
                                          Len(history))
       IN  /\ sinks' = outcome.sinks
           /\ result' = outcome.result
           /\ catchup' = CatchUp(outcome)
    /\ UNCHANGED <<eventQueue, calls, entropy, trigger, rules, battle, history,
                   nextId, drain, pc, lineage, broadcast, refused>>

\* MultiClientSinkHandleMut::send_range
SendRange(id, start, end) ==
    /\ pc = "idle"
    /\ LET range == normalize_range(start, end, Len(history))
           outcome ==
               IF range.result # "Ok"
               THEN [sinks |-> sinks, result |-> range.result,
                     sent |-> <<>>, disconnected |-> <<>>]
               ELSE MultiClientSinkSend(sinks, id,
                                        versioned_events(history, range.start,
                                                         range.end))
       IN  /\ sinks' = outcome.sinks
           /\ result' = outcome.result
           /\ catchup' = CatchUp(outcome)
    /\ UNCHANGED <<eventQueue, calls, entropy, trigger, rules, battle, history,
                   nextId, drain, pc, lineage, broadcast, refused>>

\* A caller builds the trigger of an event on the idle server
\* (DummyEvent::trigger, EndRound::trigger).
NewTrigger(event) ==
    /\ pc = "idle"
    /\ trigger' = [event |-> {event}, decorators |-> <<>>]
    /\ UNCHANGED <<eventQueue, calls, entropy, catchup, rules, battle, history,
                   nextId, sinks, drain, pc, result, lineage, broadcast,
                   refused>>

\* The caller wraps the trigger in one more decorator (Conditional::new,
\* Originated::new).
Decorate(decorator) ==
    /\ pc = "idle"
    /\ trigger.event # {}
    /\ Len(trigger.decorators) < MaxDecorators
    /\ trigger' = [trigger EXCEPT !.decorators = Append(@, decorator)]
    /\ UNCHANGED <<eventQueue, calls, entropy, catchup, rules, battle, history,
                   nextId, sinks, drain, pc, result, lineage, broadcast,
                   refused>>

\* EventTrigger::fire: the prototype of the trigger goes to the processor.
Fire ==
    /\ trigger.event # {}
    /\ Process(TriggerPrototype(CHOOSE e \in trigger.event : TRUE,
                                trigger.decorators))

\* EventTrigger::fire on a trigger built on an event queue or on a
\* decorator of it: the prototype goes to that processor.  fire borrows
\* the trigger for its whole lifetime, so a trigger is fired once.  The
\* field seq of the prototype is its rank among the fires.
FireInto(processor) ==
    /\ pc = "idle"
    /\ trigger.event # {}
    /\ Len(eventQueue.fires) < MaxFired
    /\ LET built == TriggerPrototype(CHOOSE e \in trigger.event : TRUE,
                                     trigger.decorators)
           prototype == [built EXCEPT !.seq = Len(eventQueue.fires) + 1]
       IN  eventQueue' =
             [items |-> ProcessInto(processor, eventQueue.items, prototype),
              fires |-> Append(eventQueue.fires,
                               [processor |-> processor,
                                decorators |-> trigger.decorators,
                                prototype |-> prototype])]
    /\ trigger' = NoTrigger
    /\ UNCHANGED <<calls, entropy, catchup, rules, battle, history, nextId,
                   sinks, drain, pc, result, lineage, broadcast, refused>>

\* The pipeline on a server whose only client sink stays as it is.
Next ==
    \/ \E prototype \in TopPrototypes : Process(prototype)
    \/ Run

Spec == Init /\ [][Next]_vars

\* The pipeline on a server whose client sinks come, go and break.
BroadcastPrototypes ==
    {NewPrototype(DummyEvent), NewPrototype(StartRound(<<"c1">>))}

\* A server without client sinks yet.
InitBroadcast ==
    /\ rules = QuietRules
    /\ battle = NewBattle
    /\ history = <<>>
    /\ nextId = 0
    /\ sinks = <<>>
    /\ drain = <<>>
    /\ pc = "idle"
    /\ result = "None"
    /\ lineage = <<>>
    /\ broadcast = NoBroadcast
    /\ refused = NoneRefused
    /\ trigger = NoTrigger
    /\ catchup = NoCatchUp
    /\ entropy = NoEntropy
    /\ calls = <<>>
    /\ eventQueue = NoQueue

NextBroadcast ==
    \/ \E prototype \in BroadcastPrototypes : Process(prototype)
    \/ Run
    \/ \E id \in SinkIds, ok \in BOOLEAN : AddSink(Sink(id, ok))
    \/ \E id \in SinkIds : RemoveSink(id)
    \/ \E id \in SinkIds : Break(id)

SpecBroadcast == InitBroadcast /\ [][NextBroadcast]_vars

\* The id lists of the StartRound events of the rounds specification: two
\* creatures of the battle, a creature that does not exist and an object.
RoundLists ==
    {<<>>, <<"c1">>, <<"c1", "c1">>, <<"c1", "c2">>, <<"c2", "c1", "c2">>,
     <<"o1", "c9">>, <<"c9", "o1">>, <<"c1", "o1">>, <<"c2", "c9">>,
     <<"c1", "c2", "c9">>}

\* The round events a caller submits, and a dummy event that is dropped
\* unless a round is in progress.
RoundPrototypes ==
    {NewPrototype(StartRound(ids)) : ids \in RoundLists}
    \cup {NewPrototype(EndRound), NewPrototype(EnvironmentRound)}
    \cup {NewPrototype(ResetRounds(seed)) : seed \in {None, Some(GivenSeed)}}
    \cup {Conditional(NewPrototype(DummyEvent), "IsStarted")}

\* A server on a battle with two creatures and no or one object, whose round
\* rules accept every actor or reject the second creature, and one client
\* sink.
InitRounds ==
    /\ rules = SilentRules
    /\ battle \in {[NewBattle EXCEPT !.actors = {"c1", "c2"},
                                     !.objects = objects,
                                     !.ineligible = rejected] :
                      rejected \in {{}, {"c2"}}, objects \in {{}, ObjectIds}}
    /\ history = <<>>
    /\ nextId = 0
    /\ sinks = <<Sink(0, TRUE)>>
    /\ drain = <<>>
    /\ pc = "idle"
    /\ result = "None"
    /\ lineage = <<>>
    /\ broadcast = NoBroadcast
    /\ refused = NoneRefused
    /\ trigger = NoTrigger
    /\ catchup = NoCatchUp
    /\ entropy = NoEntropy
    /\ calls = <<>>
    /\ eventQueue = NoQueue

NextRounds ==
    \/ \E prototype \in RoundPrototypes :
          nextId < MaxRoundEvents /\ Process(prototype)
    \/ Run

SpecRounds == InitRounds /\ [][NextRounds]_vars

\* The events whose triggers a caller builds and decorates.
TriggerEvents == {DummyEvent, EndRound}

\* A server whose callers build triggers, stack decorators and fire.
NextTrigger ==
    \/ \E event \in TriggerEvents : NewTrigger(event)
    \/ \E decorator \in Decorators : Decorate(decorator)
    \/ nextId < MaxFired /\ Fire
    \/ Run

SpecTrigger == InitBroadcast /\ [][NextTrigger]_vars

\* The event ids a caller names in a range request.
RangeIds == 0 .. MaxRange

\* The sinks of the clients that catch up: one whose transport works, and
\* one under another id whose transport works or is broken.
CatchUpSinks == {Sink(0, TRUE), Sink(1, TRUE), Sink(1, FALSE)}

CatchUpSinkIds == {sink.id : sink \in CatchUpSinks}

\* A server whose clients come, go and catch up with the history.
NextCatchUp ==
    \/ nextId < MaxRange /\ Process(NewPrototype(DummyEvent))
    \/ Run
    \/ \E sink \in CatchUpSinks : AddSink(sink)
    \/ \E sink \in CatchUpSinks, start, end \in RangeIds :
          AddSinkRange(sink, start, end)
    \/ \E sink \in CatchUpSinks, event_id \in RangeIds :
          AddSinkFrom(sink, event_id)
    \/ \E id \in CatchUpSinkIds, start, end \in RangeIds :
          SendRange(id, start, end)
    \/ \E id \in CatchUpSinkIds : RemoveSink(id)

SpecCatchUp == InitBroadcast /\ [][NextCatchUp]_vars

\* The events the remote clients submit.
RemoteEvents ==
    {StartRound(ids) :
        ids \in {<<"c1">>, <<"c2">>, <<"c1", "c1">>, <<"c1", "c2">>, <<"c9">>}}
    \cup {DummyEvent, EndRound, EnvironmentRound, ResetRounds(None),
          ResetEntropy(None), CreateObject("o1"), RemoveObject("o1")}

\* A server on a battle with two creatures of one team or of two teams and
\* no or one object; the first player controls no team, the second the
\* first team and the third both teams.
InitRemote ==
    /\ rules = SilentRules
    /\ battle \in {[NewBattle EXCEPT
                       !.actors = {"c1", "c2"},
                       !.objects = objects,
                       !.teams = [actor \in {"c1", "c2"} |->
                                    IF actor = "c1" THEN "t1" ELSE second],
                       !.rights = [player \in Players |->
                                     CASE player = "p0" -> {}
                                       [] player = "p1" -> {"t1"}
                                       [] player = "p2" -> {"t1", "t2"}]] :
                      second \in TeamIds, objects \in {{}, ObjectIds}}
    /\ history = <<>>
    /\ nextId = 0
    /\ sinks = <<Sink(0, TRUE)>>
    /\ drain = <<>>
    /\ pc = "idle"
    /\ result = "None"
    /\ lineage = <<>>
    /\ broadcast = NoBroadcast
    /\ refused = NoneRefused
    /\ trigger = NoTrigger
    /\ catchup = NoCatchUp
    /\ entropy = NoEntropy
    /\ calls = <<>>
    /\ eventQueue = NoQueue

NextRemote ==
    \/ \E player \in Players, event \in RemoteEvents :
          nextId < MaxRoundEvents /\ ProcessClient(player, event)
    \/ Run

SpecRemote == InitRemote /\ [][NextRemote]_vars

\* The events whose triggers a client builds and decorates.
ClientEvents == {DummyEvent, StartRound(<<"c1">>), EndRound}

\* The same server, whose clients build triggers, wrap them in decorators
\* and fire them at the server.
NextClient ==
    \/ \E event \in ClientEvents : NewTrigger(event)
    \/ \E decorator \in Decorators : Decorate(decorator)
    \/ \E player \in Players : nextId < MaxFired /\ FireFromClient(player)
    \/ Run

SpecClient == InitRemote /\ [][NextClient]_vars

\* The bounds a caller passes to generate.
EntropyBounds == {LowBound, HighBound, NaN}

\* The events that reset the entropy, without and with a seed.
ResetPrototypes ==
    {NewPrototype(ResetEntropy(seed)) : seed \in {None, Some(GivenSeed)}}

\* The events submitted to the server whose entropy is observed.
EntropyPrototypes ==
    ResetPrototypes
    \cup {NewPrototype(StartRound(<<"c1">>)), NewPrototype(EndRound)}

\* A server on a battle built without or with a seed, with the test rules
\* or with rules that draw from a generator, and a replica of its entropy.
InitEntropy ==
    /\ rules = SilentRules
    /\ \E seed \in {None, Some(GivenSeed)}, er \in {"Custom", "Uniform"} :
          /\ battle = [NewBattle EXCEPT
                          !.entropyModel = EntropyNew(seed, er).model]
          /\ entropy = [NoEntropy EXCEPT !.rules = er,
                                         !.replica = NewReplica(seed, er)]
    /\ calls = <<>>
    /\ eventQueue = NoQueue
    /\ history = <<>>
    /\ nextId = 0
    /\ sinks = <<Sink(0, TRUE)>>
    /\ drain = <<>>
    /\ pc = "idle"
    /\ result = "None"
    /\ lineage = <<>>
    /\ broadcast = NoBroadcast
    /\ refused = NoneRefused
    /\ trigger = NoTrigger
    /\ catchup = NoCatchUp

NextEntropy ==
    \/ \E low, high \in EntropyBounds : Generate(low, high)
    \/ \E prototype \in EntropyPrototypes :
          nextId < MaxResets /\ Process(prototype)
    \/ Run

SpecEntropy == InitEntropy /\ [][NextEntropy]_vars

\* A server whose entropy is asked for values and reset, and a replica of
\* that entropy that is fed the same calls and events later.
NextReplay ==
    \/ \E low, high \in EntropyBounds : Generate(low, high)
    \/ \E prototype \in ResetPrototypes :
          nextId < MaxResets /\ Process(prototype)
    \/ Run
    \/ Replay

SpecReplay == InitEntropy /\ [][NextReplay]_vars

\* The same server, and a replica that leaves out the calls of generate
\* with equal bounds.
NextDistinct ==
    \/ \E low, high \in EntropyBounds : Generate(low, high)
    \/ \E prototype \in ResetPrototypes :
          nextId < MaxResets /\ Process(prototype)
    \/ Run
    \/ ReplayDistinct

SpecDistinct == InitEntropy /\ [][NextDistinct]_vars

\* The status scenario: the creature and the object of the scenario of the
\* status tests, one status inflicted on the creature with either intensity
\* and any maximum duration, before or during a round, and the rounds of
\* the creature.
\* The events on an entity that does not exist are refused.
StatusPotencies ==
    {[intensity |-> intensity, duration |-> duration] :
        intensity \in {0, STATUS_INTENSITY}, duration \in 0 .. MaxDuration}

Inflicted(h) ==
    {i \in 1 .. Len(h) : h[i].event.kind = "InflictStatus"}

StatusPrototypes ==
    {NewPrototype(StartRound(<<"c9">>)),
     NewPrototype(EndRound),
     NewPrototype(InflictStatus("c9", STATUS_INTENSITY, 1)),
     NewPrototype(ClearStatus("c9")),
     NewPrototype(AlterStatistics("c9", 1))}

InitStatus ==
    /\ rules = StatusRules
    /\ battle = [NewBattle EXCEPT !.actors = {"c1"}, !.objects = ObjectIds]
    /\ history = <<>>
    /\ nextId = 0
    /\ sinks = <<Sink(0, TRUE)>>
    /\ drain = <<>>
    /\ pc = "idle"
    /\ result = "None"
    /\ lineage = <<>>
    /\ broadcast = NoBroadcast
    /\ refused = NoneRefused
    /\ trigger = NoTrigger
    /\ catchup = NoCatchUp
    /\ entropy = NoEntropy
    /\ calls = <<>>
    /\ eventQueue = NoQueue

NextStatus ==
    \/ \E potency \in StatusPotencies :
          /\ Inflicted(history) = {}
          /\ Submit(NewPrototype(InflictStatus("c1", potency.intensity,
                                               potency.duration)))
    \/ /\ battle.roundsStarted < MaxCycles
       /\ Submit(NewPrototype(StartRound(<<"c1">>)))
    \/ \E prototype \in StatusPrototypes : Submit(prototype)
    \/ Run

SpecStatus == InitStatus /\ [][NextStatus]_vars

\* The callbacks scenario: two creatures under the rules whose actor rules
\* fire events, one status inflicted on either creature, and rounds started
\* from lists that name a creature once or twice.
CallbackLists ==
    {<<>>, <<"c1">>, <<"c1", "c2">>, <<"c2", "c1", "c2">>}

InitCallbacks ==
    /\ rules = ActorRules
    /\ battle = [NewBattle EXCEPT !.actors = {"c1", "c2"}]
    /\ history = <<>>
    /\ nextId = 0
    /\ sinks = <<Sink(0, TRUE)>>
    /\ drain = <<>>
    /\ pc = "idle"
    /\ result = "None"
    /\ lineage = <<>>
    /\ broadcast = NoBroadcast
    /\ refused = NoneRefused
    /\ trigger = NoTrigger
    /\ catchup = NoCatchUp
    /\ entropy = NoEntropy
    /\ calls = <<>>
    /\ eventQueue = NoQueue

NextCallbacks ==
    \/ \E id \in {"c1", "c2"}, duration \in 1 .. MaxDuration :
          /\ Inflicted(history) = {}
          /\ Submit(NewPrototype(InflictStatus(id, STATUS_INTENSITY,
                                               duration)))
    \/ \E ids \in CallbackLists :
          /\ battle.roundsStarted < MaxDuration
          /\ Submit(NewPrototype(StartRound(ids)))
    \/ Submit(NewPrototype(EndRound))
    \/ Run

SpecCallbacks == InitCallbacks /\ [][NextCallbacks]_vars

\* The queue scenario: callers build triggers of the dummy event, wrap them
\* in Originated decorators and fire them into an event queue, directly or
\* through a Prioritized or a LinkedQueue decorator.  The origin of the
\* LinkedQueue is none, the origin next to the forced one as in the test
\* linked_queue_respects_origin, or the forced one itself.
LinkedOrigins == {None, Some(ForcedOrigin + 1), Some(ForcedOrigin)}

Processors ==
    {Processor("EventQueue", None), Processor("Prioritized", None)}
    \cup {Processor("LinkedQueue", origin) : origin \in LinkedOrigins}

QueueDecorators ==
    {Decorator("Originated", o) : o \in {StackedOrigin, ForcedOrigin}}

NextQueue ==
    \/ NewTrigger(DummyEvent)
    \/ \E decorator \in QueueDecorators : Decorate(decorator)
    \/ \E processor \in Processors : FireInto(processor)

SpecQueue == InitBroadcast /\ [][NextQueue]_vars

\* ------------------------------------------------------------------------
\* Properties.
\* ------------------------------------------------------------------------
\* The errors an event's verify returns.
VerificationErrors ==
    {"RoundInProgress", "NoRoundInProgress", "NotAnActor", "EntityNotFound",
     "ActorNotEligible", "DuplicatedObject", "ObjectNotFound"}

\* The prototype the next Run is about, and whether a caller submitted it.
Running == pc = "processing"
Current == Head(drain)
Submitted == Current.by = None

\* The condition of the prototype is false on the battle state b.
ConditionFalse(prototype, b) ==
    /\ prototype.condition # None
    /\ ~EvalCondition(CHOOSE c \in prototype.condition : TRUE, b)

Committed == history' # history

\* C1: the event at position i of the history has id i (ids 0, 1, ...,
\* len - 1 in order), and the history holds as many events as were
\* committed, whatever was submitted, refused, dropped or generated.
C1_HistoryIdsContiguous ==
    /\ Len(history) = nextId
    /\ Len(lineage) = Len(history)
    /\ \A i \in 1 .. Len(history) : history[i].id = i - 1

\* After a call refused by verification, one dropped by its condition and
\* events generated during apply, the history holds three or more events.
C1_Witness ==
    /\ pc = "idle"
    /\ result = "ConditionUnsatisfied"
    /\ Len(history) >= 3
    /\ \E i \in 1 .. Len(history) : lineage[i].by # None

\* C2: when the verify of a submitted prototype fails, process returns that
\* typed error and nothing else changes: battle (round state, entities),
\* history, next id and sink registry stay, and nothing is broadcast.
C2_VerificationFailureChangesNothing ==
    [][(Running /\ Submitted /\ verify(battle, Current.event) # "Ok")
        => /\ result' = verify(battle, Current.event)
           /\ result' \in VerificationErrors
           /\ pc' = "idle"
           /\ UNCHANGED <<battle, history, nextId, sinks, lineage,
                          broadcast>>]_vars

\* A StartRound submitted during a round was refused.
C2_Witness ==
    /\ pc = "idle"
    /\ result = "RoundInProgress"
    /\ battle.rounds.started
    /\ Len(history) >= 1
    /\ sinks # <<>>

\* C3: a prototype whose condition is false when it is processed is not
\* applied, not appended to the history and consumes no id; the next
\* committed event receives the id that was next when it was dropped.
C3_FalseConditionDrops ==
    [][/\ (Running /\ ConditionFalse(Current, battle))
            => UNCHANGED <<battle, history, nextId, lineage>>
       /\ Committed
            => /\ history' = Append(history, history'[Len(history')])
               /\ history'[Len(history')].id = nextId
               /\ nextId' = nextId + 1]_vars

\* A generated prototype was dropped by its condition and the id that was
\* next at that moment went to the event committed after it.
C3_Witness ==
    /\ refused.error = "ConditionUnsatisfied"
    /\ \E prototype \in refused.prototype : prototype.by # None
    /\ Len(history) > refused.nextId
    /\ history[refused.nextId + 1].id = refused.nextId

\* C4 as stated: processing a submitted prototype whose condition is false
\* yields no error, the caller receives a success outcome.
C4_SilentDrop ==
    [][(Running /\ Submitted /\ ConditionFalse(Current, battle))
        => result' = "Ok"]_vars

\* C4 amended: processing a submitted prototype whose condition is false
\* changes nothing, but process returns an error to the caller, never
\* success.
C4_DropIsAnError ==
    [][(Running /\ Submitted /\ ConditionFalse(Current, battle))
        => /\ result' \in VerificationErrors \cup {"ConditionUnsatisfied"}
           /\ pc' = "idle"
           /\ UNCHANGED <<battle, history, nextId, sinks>>]_vars

\* A submitted conditional dummy event came back as an error from a server
\* that had committed nothing yet.
C4_Witness ==
    /\ pc = "idle"
    /\ result = "ConditionUnsatisfied"
    /\ history = <<>>
    /\ \E prototype \in refused.prototype :
          prototype.by = None /\ prototype.event.kind = "DummyEvent"

\* C5 as stated: firing a Conditional trigger on the server while its
\* condition is false returns ConditionUnsatisfied.
C5_AlwaysConditionUnsatisfied ==
    [][(Running /\ Submitted /\ ConditionFalse(Current, battle))
        => result' = "ConditionUnsatisfied"]_vars

\* C5 amended: firing a Conditional trigger whose event passes its verify
\* while its condition is false returns ConditionUnsatisfied.
C5_ConditionUnsatisfied ==
    [][(Running /\ Submitted /\ ConditionFalse(Current, battle)
        /\ verify(battle, Current.event) = "Ok")
        => result' = "ConditionUnsatisfied"]_vars

\* A conditional StartRound that would have verified was refused for its
\* condition during the server's idle round state.
C5_Witness ==
    /\ pc = "idle"
    /\ result = "ConditionUnsatisfied"
    /\ ~battle.rounds.started
    /\ \E prototype \in refused.prototype :
          /\ prototype.by = None
          /\ prototype.event.kind = "StartRound"
          /\ verify(battle, prototype.event) = "Ok"

\* d is a committed event generated, directly or not, by the committed
\* event at position x.
RECURSIVE IsDescendant(_, _)
IsDescendant(d, x) ==
    /\ lineage[d].by # None
    /\ LET parent == (CHOOSE id \in lineage[d].by : TRUE) + 1
       IN  parent = x \/ (parent < d /\ IsDescendant(parent, x))

\* Events i and j were fired, in that order, by the apply of one event.
FiredInOrder(i, j) ==
    /\ lineage[i].by # None
    /\ lineage[i].by = lineage[j].by
    /\ lineage[i].seq < lineage[j].seq

\* C6: the events fired by the apply of one event are committed in the
\* order they were fired, each with all its descendants before the next
\* one, and process returns only when nothing is left to drain.
C6_DrainIsFifoAndComplete ==
    /\ \A i, j \in 1 .. Len(history) :
          FiredInOrder(i, j)
            => /\ i < j
               /\ \A d \in 1 .. Len(history) : IsDescendant(d, i) => d < j
    /\ pc = "idle" => drain = <<>>

\* process returned after an event fired two events and the first of them
\* fired a third one, committed between the two.
C6_Witness ==
    /\ pc = "idle"
    /\ \E i, j, d \in 1 .. Len(history) :
          FiredInOrder(i, j) /\ IsDescendant(d, i) /\ i < d /\ d < j

\* C7: an event fired during the apply of event E is committed with origin
\* E, unless its prototype carried an origin when it was fired, which is
\* then kept; a submitted prototype keeps the origin it carried (none
\* unless given explicitly).
C7_OriginOfCommitted ==
    \A i \in 1 .. Len(history) :
        history[i].origin =
            IF lineage[i].own # None THEN lineage[i].own ELSE lineage[i].by

\* One apply fired a prototype without origin and one with an explicit
\* origin, and both were committed; a submitted event has no origin.
C7_Witness ==
    /\ \E i, j \in 1 .. Len(history) :
          /\ lineage[i].by # None /\ lineage[i].own = None
          /\ history[i].origin = lineage[i].by
          /\ lineage[j].by = lineage[i].by
          /\ lineage[j].own = Some(ForcedOrigin)
          /\ history[j].origin = Some(ForcedOrigin)
    /\ \E k \in 1 .. Len(history) :
          lineage[k].by = None /\ history[k].origin = None

\* C8: a queued prototype with a condition is committed exactly when its
\* event verifies and its condition holds on the state at the moment it is
\* drained, whatever the condition was worth when it was fired.
C8_ConditionAtDrainTime ==
    [][(Running /\ ~Submitted /\ Current.condition # None)
        => (Committed <=>
              /\ verify(battle, Current.event) = "Ok"
              /\ ~ConditionFalse(Current, battle))]_vars

\* A prototype whose condition was false when fired has been committed,
\* and the next one to drain had a true condition when fired that is
\* false now.
C8_Witness ==
    /\ Running
    /\ ~Submitted
    /\ Current.at
    /\ ConditionFalse(Current, battle)
    /\ \E i \in 1 .. Len(history) : ~lineage[i].at

\* C9: every commit, of a submitted or of a generated event, passes the
\* committed event to send once for each sink registered at that moment,
\* nothing is sent without a commit, and successive broadcasts carry
\* strictly increasing event ids.
C9_BroadcastOnCommit ==
    [][/\ Committed
            => /\ broadcast'.event = history'[Len(history')].id
               /\ broadcast'.sent = SinkIdsOf(sinks)
               /\ \A i, j \in 1 .. Len(sinks) :
                     sinks[i].id = sinks[j].id => i = j
               /\ broadcast'.event > broadcast.event
       /\ broadcast' # broadcast => Committed]_vars

\* A generated event was broadcast to two registered sinks.
C9_Witness ==
    /\ broadcast.event >= 1
    /\ Len(broadcast.sent) = 2
    /\ lineage[broadcast.event + 1].by # None

\* C10: whichever sinks fail during a broadcast, send_all completes, every
\* sink whose send succeeded was sent the event and is still registered,
\* and the commit stands.
C10_BroadcastSurvivesFailures ==
    [][Committed
        => /\ ~broadcast'.panicked
           /\ pc' # "panicked"
           /\ history' = Append(history, history'[Len(history')])
           /\ \A i \in 1 .. Len(sinks) :
                 sinks[i].ok
                   => /\ sinks[i].id \in Range(broadcast'.sent)
                      /\ \E k \in 1 .. Len(sinks') : sinks'[k] = sinks[i]]_vars

\* How many times on_disconnect was invoked on the sink id by the last
\* broadcast.
Disconnections(b, id) ==
    Cardinality({k \in 1 .. Len(b.disconnected) : b.disconnected[k] = id})

\* C11: after a broadcast, every sink whose send failed has been removed
\* from the registry and its on_disconnect was invoked exactly once, and
\* on_disconnect was invoked on no sink whose send succeeded, whatever the
\* number and the positions of the failing sinks.
C11_FailedSinksDisconnectedOnce ==
    [][Committed
        => \A i \in 1 .. Len(sinks) :
              IF sinks[i].ok
              THEN Disconnections(broadcast', sinks[i].id) = 0
              ELSE /\ Disconnections(broadcast', sinks[i].id) = 1
                   /\ sinks[i].id \notin Range(SinkIdsOf(sinks'))]_vars

\* The registry holds a sink with this id.
Registered(reg, id) == \E i \in 1 .. Len(reg) : reg[i].id = id

\* The range start .. end (end excluded) fits a history of length len.
ValidRange(start, end, len) == start <= end /\ end <= len

\* C12: whatever add, remove, send and send_all did, the registered sinks
\* have pairwise distinct ids; adding a sink under a registered id, alone or
\* with a valid range, returns DuplicatedEventSink and leaves the registry,
\* hence the sink registered before and the size, as it was.
C12_SinkIdsUnique ==
    [][/\ \A i, j \in 1 .. Len(sinks') :
             sinks'[i].id = sinks'[j].id => i = j
       /\ \A sink \in CatchUpSinks :
             Registered(sinks, sink.id)
               => /\ AddSink(sink)
                       => result' = "DuplicatedEventSink" /\ sinks' = sinks
                  /\ \A start, end \in RangeIds :
                        (/\ ValidRange(start, end, Len(history))
                         /\ AddSinkRange(sink, start, end))
                          => /\ result' = "DuplicatedEventSink"
                             /\ sinks' = sinks]_vars

\* A duplicate was refused on a registry of two sinks, after a failed send
\* had removed a sink and an event had been broadcast.
C12_Witness ==
    /\ result = "DuplicatedEventSink"
    /\ Len(sinks) = 2
    /\ catchup.disconnected # <<>>
    /\ broadcast.event >= 0

\* C13: add_sink_range, add_sink_from and send_range return
\* InvalidEventRange exactly when start > end or end > length of the
\* history (for add_sink_from, end is that length), and a rejected request
\* sends nothing and leaves the registry as it was.
C13_RangeRejectedExactly ==
    [][/\ \A sink \in CatchUpSinks, start, end \in RangeIds :
             /\ (result' = "InvalidEventRange"
                   <=> ValidRange(start, end, Len(history)))
                   => ~(\/ AddSinkRange(sink, start, end)
                        \/ SendRange(sink.id, start, end))
             /\ (result' = "InvalidEventRange" <=> start <= Len(history))
                   => ~AddSinkFrom(sink, start)
       /\ result' = "InvalidEventRange" /\ result # "InvalidEventRange"
             => sinks' = sinks /\ catchup'.sent = <<>>]_vars

\* A range request was rejected on a server with events and sinks.
C13_Witness ==
    /\ result = "InvalidEventRange"
    /\ Len(history) >= 1
    /\ Len(history) < MaxRange
    /\ sinks # <<>>

\* The invocations of send of a catch-up of the sink id with the events
\* start .. end - 1.
RangeSentTo(id, start, end) ==
    [k \in 1 .. (end - start) |-> [sink |-> id, event |-> start + k - 1]]

\* C14: a successful add_sink_range, add_sink_from or send_range passes to
\* send of the target sink the events with ids start, start + 1, ...,
\* end - 1, each once and in that order, and invokes send on no other sink.
C14_CatchUpSendsRange ==
    [][\A sink \in CatchUpSinks, start, end \in RangeIds :
          /\ (/\ result' = "Ok"
              /\ catchup'.sent # RangeSentTo(sink.id, start, end))
                => ~(\/ AddSinkRange(sink, start, end)
                     \/ SendRange(sink.id, start, end))
          /\ (/\ result' = "Ok"
              /\ catchup'.sent # RangeSentTo(sink.id, start, Len(history)))
                => ~AddSinkFrom(sink, start)]_vars

\* A catch-up of two events succeeded on a registry of two sinks.
C14_Witness ==
    /\ result = "Ok"
    /\ Len(catchup.sent) >= 2
    /\ Len(sinks) >= 2
    /\ catchup.sent[1].sink = sinks[2].id

\* The value of the outermost decorator of the given kind, none if the
\* trigger is wrapped in no decorator of that kind.
Outermost(decorators, kind) ==
    LET of == {i \in 1 .. Len(decorators) : decorators[i].kind = kind}
    IN  IF of = {} THEN None
        ELSE Some(decorators[CHOOSE i \in of : \A j \in of : j <= i].value)

\* The prototype carries the event of the trigger, the condition of its
\* outermost Conditional and the origin of its outermost Originated.
Carries(prototype, t) ==
    /\ prototype.event \in t.event
    /\ prototype.condition = Outermost(t.decorators, "Conditional")
    /\ prototype.origin = Outermost(t.decorators, "Originated")

\* C15: decorators compose: whatever the nesting order, the prototype of a
\* decorated trigger, and the prototype the server processes when it is
\* fired, is one prototype with the event of the inner trigger unchanged,
\* the condition of the Conditional and the origin of the Originated.
C15_DecoratorsCompose ==
    /\ trigger.event # {}
          => Carries(TriggerPrototype(CHOOSE e \in trigger.event : TRUE,
                                      trigger.decorators), trigger)
    /\ (Running /\ Submitted) => Carries(Current, trigger) /\ Len(drain) = 1

\* The server processes the prototype of a trigger wrapped in Originated
\* and then in Conditional, the nesting the test does not exercise.
C15_Witness ==
    /\ Running
    /\ Submitted
    /\ Len(trigger.decorators) = 2
    /\ trigger.decorators[1].kind = "Originated"
    /\ trigger.decorators[2].kind = "Conditional"
    /\ Current.condition # None
    /\ Current.origin = Some(trigger.decorators[1].value)

\* The event committed by the step.
Last == history'[Len(history')]

\* C16: a StartRound processed while the round state is Started is refused
\* with RoundInProgress and an EndRound processed while it is Ready is
\* refused with NoRoundInProgress; nothing is committed and the round state
\* stays as it was.
C16_WrongStateRefused ==
    [][/\ (Running /\ Current.event.kind = "StartRound"
            /\ battle.rounds.started)
            => /\ refused'.error = "RoundInProgress"
               /\ result' = "RoundInProgress"
               /\ ~Committed
               /\ battle'.rounds = battle.rounds
       /\ (Running /\ Current.event.kind = "EndRound"
            /\ ~battle.rounds.started)
            => /\ refused'.error = "NoRoundInProgress"
               /\ result' = "NoRoundInProgress"
               /\ ~Committed
               /\ battle'.rounds = battle.rounds]_vars

\* A StartRound naming a good actor was refused during the second round.
C16_Witness ==
    /\ pc = "idle"
    /\ refused.error = "RoundInProgress"
    /\ \E prototype \in refused.prototype :
          prototype.event = StartRound(<<"c1">>)
    /\ battle.rounds.started
    /\ battle.roundsStarted = 2

\* The round events of a history: its StartRound and EndRound events.
RECURSIVE RoundEvents(_)
RoundEvents(h) ==
    IF h = <<>> THEN <<>>
    ELSE LET init == RoundEvents(SubSeq(h, 1, Len(h) - 1))
             kind == h[Len(h)].event.kind
         IN  IF kind \in {"StartRound", "EndRound"}
             THEN Append(init, kind) ELSE init

\* StartRound and EndRound alternate in the history, StartRound first, and
\* every ResetRounds and EnvironmentRound comes after as many EndRound as
\* StartRound events.
RoundsAlternate(h) ==
    /\ \A i \in 1 .. Len(RoundEvents(h)) :
          RoundEvents(h)[i] = IF i % 2 = 1 THEN "StartRound" ELSE "EndRound"
    /\ \A i \in 1 .. Len(h) :
          h[i].event.kind \in {"ResetRounds", "EnvironmentRound"}
            => Len(RoundEvents(SubSeq(h, 1, i))) % 2 = 0

\* C17: the round state starts as Ready and changes only from Ready to
\* Started, by the commit of a StartRound, and from Started to Ready, by
\* the commit of an EndRound; so the StartRound and EndRound events of the
\* history alternate, StartRound first, and no ResetRounds or
\* EnvironmentRound is committed during a round.
C17_RoundStateMachine ==
    /\ battle.rounds = Ready
    /\ [][/\ battle'.rounds # battle.rounds
                => /\ Committed
                   /\ \/ /\ ~battle.rounds.started
                         /\ battle'.rounds.started
                         /\ Last.event.kind = "StartRound"
                      \/ /\ battle.rounds.started
                         /\ battle'.rounds = Ready
                         /\ Last.event.kind = "EndRound"
          /\ (Committed /\ Last.event.kind \in {"StartRound", "EndRound"})
                => battle'.rounds.started # battle.rounds.started
          /\ RoundsAlternate(history')]_vars

\* A round was started and ended after an environment round, and the round
\* state is Ready again.
C17_Witness ==
    /\ RoundEvents(history) = <<"StartRound", "EndRound">>
    /\ battle.rounds = Ready
    /\ history[1].event.kind = "EnvironmentRound"
    /\ battle.roundsStarted = 2

\* The position of the first occurrence of id in the list.
FirstOccurrence(ids, id) ==
    CHOOSE i \in 1 .. Len(ids) :
        ids[i] = id /\ \A j \in 1 .. (i - 1) : ids[j] # id

\* C18: after the commit of a StartRound with id list L the round state is
\* Started(S), where S holds the distinct ids of L, once each, in the order
\* of their first occurrence in L; is_acting holds exactly for the ids of
\* S, and for no id while the state is Ready.
C18_StartedSetIsDeduplicated ==
    [][/\ (Committed /\ Last.event.kind = "StartRound")
            => LET L == Last.event.ids
                   S == battle'.rounds.actors
               IN  /\ battle'.rounds.started
                   /\ Range(S) = Range(L)
                   /\ Len(S) = Cardinality(Range(L))
                   /\ \A i, j \in 1 .. Len(S) :
                         i < j => FirstOccurrence(L, S[i])
                                    < FirstOccurrence(L, S[j])
                   /\ \A id \in EntityIds :
                         is_acting(battle', id) <=> id \in Range(L)
       /\ ~battle'.rounds.started
            => \A id \in EntityIds : ~is_acting(battle', id)]_vars

\* A round was started from a list naming the second creature twice around
\* the first one.
C18_Witness ==
    /\ battle.rounds = Started(<<"c2", "c1">>)
    /\ history[Len(history)].event.ids = <<"c2", "c1", "c2">>

\* The check the claim states for one id of a StartRound.
IdError(b, id) ==
    IF id \notin CreatureIds THEN "NotAnActor"
    ELSE IF id \notin b.actors THEN "EntityNotFound"
    ELSE IF id \in b.ineligible THEN "ActorNotEligible"
    ELSE "Ok"

\* C19: a StartRound processed while the round state is Ready is refused
\* when one of its ids fails a check, with the error of the first failing
\* id of the list (NotAnActor, else EntityNotFound, else ActorNotEligible),
\* and it is committed when every id passes the three checks.
C19_FirstFailingIdDecides ==
    [][(Running /\ Current.event.kind = "StartRound"
        /\ ~battle.rounds.started)
        => LET L == Current.event.ids
               failing == {i \in 1 .. Len(L) : IdError(battle, L[i]) # "Ok"}
           IN  IF failing = {}
               THEN Committed /\ result' = "Ok"
               ELSE /\ ~Committed
                    /\ refused'.error =
                          IdError(battle,
                                  L[CHOOSE i \in failing :
                                      \A j \in failing : i <= j])
                    /\ result' = refused'.error]_vars

\* A StartRound whose first id passes was refused for its second id, which
\* the round rules reject, ahead of a third id that does not exist.
C19_Witness ==
    /\ refused.error = "ActorNotEligible"
    /\ \E prototype \in refused.prototype :
          prototype.event = StartRound(<<"c1", "c2", "c9">>)
    /\ ~battle.rounds.started

\* C20: a ResetRounds processed while the round state is Started is refused
\* with RoundInProgress; processed while it is Ready it is committed, the
\* rounds model becomes the model generated from its seed and the round
\* state stays Ready.
C20_ResetRoundsOnlyWhenReady ==
    [][(Running /\ Current.event.kind = "ResetRounds")
        => IF battle.rounds.started
           THEN /\ refused'.error = "RoundInProgress"
                /\ ~Committed
                /\ battle' = battle
           ELSE /\ Committed
                /\ Last.event = Current.event
                /\ battle'.roundsModel =
                      (IF Current.event.seed = None THEN DEFAULT_SEED
                       ELSE CHOOSE x \in Current.event.seed : TRUE)
                /\ battle'.rounds = Ready
                /\ battle' = [battle EXCEPT
                                !.roundsModel = battle'.roundsModel]]_vars

\* The rounds model was reset from a seed, and a later ResetRounds was
\* refused during a round.
C20_Witness ==
    /\ battle.roundsModel = GivenSeed
    /\ battle.rounds.started
    /\ refused.error = "RoundInProgress"
    /\ \E prototype \in refused.prototype :
          prototype.event.kind = "ResetRounds"

\* C21: an EnvironmentRound processed while the round state is Started is
\* refused with RoundInProgress and changes nothing; processed while it is
\* Ready it is committed and leaves the round state Ready with no acting
\* actor, so that a StartRound of an actor of the battle passes verification
\* on the new state and an EndRound fails it with NoRoundInProgress.
C21_EnvironmentRoundOnlyWhenReady ==
    [][(Running /\ Current.event.kind = "EnvironmentRound")
        => IF battle.rounds.started
           THEN /\ refused'.error = "RoundInProgress"
                /\ ~Committed
                /\ battle' = battle
           ELSE /\ Committed
                /\ Last.event = EnvironmentRound
                /\ battle'.rounds = Ready
                /\ \A id \in EntityIds : ~is_acting(battle', id)
                /\ verify(battle', StartRound(<<"c1">>)) = "Ok"
                /\ verify(battle', EndRound) = "NoRoundInProgress"]_vars

\* An environment round was committed on a battle with an object after a
\* round of two actors, and an EndRound submitted next was refused.
C21_Witness ==
    /\ \E i \in 1 .. Len(history) :
          /\ history[i].event.kind = "EnvironmentRound"
          /\ i > 1
          /\ i = Len(history)
    /\ battle.objects # {}
    /\ refused.error = "NoRoundInProgress"
    /\ refused.nextId = Len(history)

\* How many events of the history are of one of the kinds.
Count(h, kinds) ==
    Cardinality({i \in 1 .. Len(h) : h[i].event.kind \in kinds})

\* C22: the ROUNDS_STARTED counter equals the number of committed
\* StartRound events plus the number of committed EnvironmentRound events,
\* whatever the number of actors and objects and whatever else was
\* committed, refused or dropped.
C22_RoundsStartedCounts ==
    battle.roundsStarted = Count(history, {"StartRound", "EnvironmentRound"})

\* A round of two actors was started and ended and an environment round
\* ran on a battle with an object, after a submission was dropped.
C22_Witness ==
    /\ battle.roundsStarted = 2
    /\ Len(history) = 3
    /\ Count(history, {"EndRound"}) = 1
    /\ Count(history, {"EnvironmentRound"}) = 1
    /\ \E i \in 1 .. Len(history) : Len(history[i].event.ids) = 2
    /\ battle.objects # {}
    /\ refused.error = "ConditionUnsatisfied"

\* The teams owning the actors of the ids.
OwningTeams(b, ids) == {b.teams[ids[i]] : i \in 1 .. Len(ids)}

\* The rights are Teams of the team of each actor of the list, in order.
TeamPerActor(b, required, ids) ==
    /\ required.kind = "Teams"
    /\ Len(required.teams) = Len(ids)
    /\ \A i \in 1 .. Len(ids) : required.teams[i] = b.teams[ids[i]]

\* The rights are Teams of the teams owning the actors, each team once.
EachTeamOnce(b, required, ids) ==
    /\ required.kind = "Teams"
    /\ Range(required.teams) = OwningTeams(b, ids)
    /\ Len(required.teams) = Cardinality(OwningTeams(b, ids))

\* The StartRound events whose ids name actors of the battle.
GoodStartRounds ==
    {e \in RemoteEvents :
        e.kind = "StartRound" /\ StartRoundCheckIds(battle, e.ids) = "Ok"}

\* C23 as stated: the rights of StartRound(ids) are Teams of the set of
\* teams owning the named actors and the rights of EndRound are Teams of the
\* set of teams owning the actors of the Started state, each owning team
\* appearing once.
C23_EachOwningTeamOnce ==
    /\ \A e \in GoodStartRounds : EachTeamOnce(battle, rights(battle, e), e.ids)
    /\ battle.rounds.started
          => EachTeamOnce(battle, rights(battle, EndRound),
                          battle.rounds.actors)

\* C23 as the code has it: the rights of StartRound(ids) are Teams of a list
\* with the team of the actor of each id, in list order and one entry per
\* id, and the rights of EndRound are Teams of a list with the team of each
\* actor of the Started state, in the order of the set; every owning team
\* appears, as many times as it owns listed actors.
C23_OneTeamPerListedActor ==
    /\ \A e \in GoodStartRounds :
          /\ TeamPerActor(battle, rights(battle, e), e.ids)
          /\ Range(rights(battle, e).teams) = OwningTeams(battle, e.ids)
    /\ battle.rounds.started
          => /\ TeamPerActor(battle, rights(battle, EndRound),
                             battle.rounds.actors)
             /\ Range(rights(battle, EndRound).teams) =
                   OwningTeams(battle, battle.rounds.actors)

\* A round of two actors of the same team is in progress: the rights of
\* EndRound name that team twice.
C23_Witness ==
    /\ battle.rounds.started
    /\ battle.rounds.actors = <<"c1", "c2">>
    /\ battle.teams["c1"] = battle.teams["c2"]
    /\ rights(battle, EndRound).teams = <<"t1", "t1">>

\* The kinds of the events that keep the provided rights, Server.
ServerOnly ==
    {"ResetRounds", "EnvironmentRound", "ResetEntropy", "CreateObject",
     "RemoveObject"}

\* The player controls the team of every actor of the list.
Controls(b, player, ids) ==
    \A i \in 1 .. Len(ids) : b.teams[ids[i]] \in b.rights[player]

\* Whether the player may have the event applied.
Allowed(b, player, e) ==
    CASE e.kind \in ServerOnly -> FALSE
      [] e.kind = "DummyEvent" -> TRUE
      [] e.kind = "StartRound" -> Controls(b, player, e.ids)
      [] e.kind = "EndRound" -> Controls(b, player, b.rounds.actors)

Min(a, b) == IF a < b THEN a ELSE b
Max(a, b) == IF a < b THEN b ELSE a

\* The entropy of the battle as it was before the last call of generate.
Before(call) == [model |-> call.before, rules |-> entropy.rules]

\* C25: a call of generate(low, high) returned the value and left the model
\* that generate(high, low) returns and leaves on the model the call
\* started from, and a call of generate(x, x) returned x.
C25_GenerateIsSymmetric ==
    \A call \in entropy.last :
        LET swapped == EntropyGenerate(Before(call), call.high, call.low)
        IN  /\ swapped.output = call.out.output
            /\ swapped.model = call.out.model
            /\ call.low = call.high => call.out.output = call.low

\* After a call with equal bounds, a call with the larger bound first made
\* the generator of the uniform rules step.
C25_Witness ==
    /\ entropy.rules = "Uniform"
    /\ Len(entropy.calls) = 2
    /\ entropy.calls[1].low = entropy.calls[1].high
    /\ entropy.outputs[1] = entropy.calls[1].low
    /\ \E call \in entropy.last :
          /\ call.low > call.high
          /\ call.out.model # call.before

\* C26: the value returned by a call of generate(low, high) with low # high
\* lies in the half-open range from the smaller to the larger bound, and
\* the generate of the rules was called with its first argument strictly
\* less than its second.
C26_OutputWithinRange ==
    \A call \in entropy.last :
        call.low # call.high
          => /\ Min(call.low, call.high) <= call.out.output
             /\ call.out.output < Max(call.low, call.high)
             /\ \A called \in call.out.called : called[1] < called[2]

\* The replica has been fed every call and every event the entropy of the
\* battle was fed.
CaughtUp ==
    /\ Len(entropy.replica.outputs) = Len(entropy.calls)
    /\ entropy.replica.applied = Len(history)

C28_ResetEntropyRefusedInRound ==
    [][(Running /\ Current.event.kind = "ResetEntropy"
          /\ battle.rounds.started)
        => /\ ~Committed
           /\ refused'.error \in VerificationErrors
           /\ battle'.entropyModel = battle.entropyModel]_vars

\* C28 as the code has it: a ResetEntropy processed while the round state
\* is Started passes verification and is committed, and the entropy model
\* is regenerated from its seed during the round, which stays in progress.
C28_ResetEntropyAcceptedInRound ==
    [][(Running /\ Current.event.kind = "ResetEntropy"
          /\ battle.rounds.started)
        => /\ verify(battle, Current.event) = "Ok"
           /\ Committed
           /\ Last.event = Current.event
           /\ refused' = refused
           /\ battle'.entropyModel = generate_model(Current.event.seed)
           /\ battle'.rounds = battle.rounds]_vars

\* The entropy model was regenerated from a seed while a round was in
\* progress.
C28_Witness ==
    /\ battle.rounds.started
    /\ Len(history) = 2
    /\ history[1].event.kind = "StartRound"
    /\ history[2].event = ResetEntropy(Some(GivenSeed))
    /\ battle.entropyModel = GivenSeed
    /\ entropy.replica.entropy.model # GivenSeed

\* C29: a ResetEntropy passes verification whether the round state is Ready
\* or Started; after it is applied the entropy model is the model generated
\* from its seed, whatever the model was, so that every call of generate
\* returns and leaves what it does on an entropy object newly built from
\* that seed; the round state stays as it was.
C29_ResetEntropyRegenerates ==
    [][(Running /\ Current.event.kind = "ResetEntropy")
        => /\ verify(battle, Current.event) = "Ok"
           /\ Committed
           /\ battle' = [battle EXCEPT
                           !.entropyModel =
                              IF Current.event.seed = None THEN DEFAULT_SEED
                              ELSE CHOOSE x \in Current.event.seed : TRUE]
           /\ \A low, high \in EntropyBounds :
                 EntropyGenerate([model |-> battle'.entropyModel,
                                  rules |-> entropy.rules], low, high)
                   = EntropyGenerate(
                        EntropyNew(Current.event.seed, entropy.rules),
                        low, high)]_vars

\* A reset without seed came between two calls of generate on a battle
\* built with a seed, before any round, and changed the model the first
\* call had left.
C29_Witness ==
    /\ ~battle.rounds.started
    /\ Len(history) = 1
    /\ history[1].event = ResetEntropy(None)
    /\ Len(entropy.calls) = 2
    /\ entropy.calls[1].at = 0
    /\ entropy.calls[2].at = 1
    /\ entropy.replica.entropy.model = GivenSeed
    /\ entropy.outputs[1] # entropy.outputs[2]

\* The rounds of the afflicted entity started since the status was
\* inflicted by the event at index i of the history.
CyclesSince(i) ==
    Cardinality({j \in i + 1 .. Len(history) :
                    /\ history[j].event.kind = "StartRound"
                    /\ history[i].event.id \in Range(history[j].event.ids)})

\* The status of the entity is present with the given duration.
StatusPresent(id, duration) ==
    \E status \in battle.status :
        status.entity = id /\ status.duration = duration

\* C30 as stated: once the server is idle between two rounds, a status
\* inflicted with maximum duration D is gone and the statistic is back to
\* its value before the status after D rounds of the entity, and after
\* k < D rounds the status is present with duration k.
C30_StatusEndsAfterDuration ==
    (pc = "idle" /\ battle.rounds = Ready) =>
        \A i \in Inflicted(history) :
            LET D == history[i].event.potency.duration
                k == CyclesSince(i)
            IN  /\ k = D =>
                      /\ battle.status = None
                      /\ battle.statistic[history[i].event.id]
                            = STATISTIC_VALUE
                /\ k < D => StatusPresent(history[i].event.id, k)

\* C30, amended: the same for a maximum duration of at least one, the
\* status staying away after it ended; a status of maximum duration zero is
\* never removed by the rounds, its duration being k after k rounds.
C30_PositiveDurationEnds ==
    (pc = "idle" /\ battle.rounds = Ready) =>
        \A i \in Inflicted(history) :
            LET D == history[i].event.potency.duration
                k == CyclesSince(i)
            IN  /\ (D >= 1 /\ k >= D) =>
                      /\ battle.status = None
                      /\ battle.statistic[history[i].event.id]
                            = STATISTIC_VALUE
                /\ (D = 0 \/ k < D) =>
                      StatusPresent(history[i].event.id, k)

\* A status of the largest duration ended in the last of its rounds: the
\* update altered the statistic, the removal and its clean-up followed.
C30_Witness ==
    /\ pc = "idle"
    /\ battle.rounds = Ready
    /\ \E i \in Inflicted(history) :
          /\ history[i].event.potency =
                [intensity |-> STATUS_INTENSITY, duration |-> MaxDuration]
          /\ CyclesSince(i) = MaxDuration
          /\ Len(history) = i + 1 + 3 * MaxDuration + 2
          /\ history[Len(history) - 3].event =
                AlterStatistics("c1", STATUS_INTENSITY * STATISTIC_VALUE
                                      + MaxDuration)
          /\ history[Len(history) - 2].event = ClearStatus("c1")
          /\ history[Len(history) - 1].event =
                AlterStatistics("c1", STATISTIC_VALUE)
          /\ history[Len(history)].event.kind = "EndRound"
    /\ battle.status = None
    /\ battle.statistic["c1"] = STATISTIC_VALUE

\* The entity the events fired by the callbacks of a round concern.
Concerns(prototype) == prototype.event.id

\* The head of the queue holds the events of the prototypes, in order.
HeadOfQueue(queue, prototypes) ==
    /\ Len(queue) >= Len(prototypes)
    /\ \A i \in 1 .. Len(prototypes) :
          /\ queue[i].event = prototypes[i].event
          /\ queue[i].condition = prototypes[i].condition

\* C31: the apply of a StartRound sets the state to Started before any
\* callback runs and visits the deduplicated actors in insertion order,
\* running on_start, on_round_start and the status update of one actor
\* before those of the next, so that the events queued for an earlier actor
\* precede in the queue those queued for a later actor.
C31_StartRoundVisitsActorsInOrder ==
    [][(Committed /\ Last.event.kind = "StartRound")
         => LET L == Last.event.ids
                S == battle'.rounds.actors
                queued == Queued(calls')
            IN  /\ Len(calls') = 3 * Len(S)
                /\ \A i \in 1 .. Len(S) :
                      /\ calls'[3 * i - 2].callback = "on_start"
                      /\ calls'[3 * i - 1].callback = "on_round_start"
                      /\ calls'[3 * i].callback = "update_statuses"
                      /\ \A n \in 0 .. 2 : calls'[3 * i - n].actor = S[i]
                /\ \A i, j \in 1 .. Len(S) :
                      i < j => FirstOccurrence(L, S[i])
                                 < FirstOccurrence(L, S[j])
                /\ \A n \in 1 .. Len(calls') :
                      /\ calls'[n].rounds = battle'.rounds
                      /\ calls'[n].rounds.started
                      /\ \A q \in 1 .. Len(calls'[n].fired) :
                            Concerns(calls'[n].fired[q]) = calls'[n].actor
                /\ HeadOfQueue(drain', queued)
                /\ \A p, q \in 1 .. Len(queued) :
                      p < q => FirstOccurrence(L, Concerns(drain'[p]))
                                 <= FirstOccurrence(L, Concerns(drain'[q]))]_vars

\* A round was started from a list naming the second creature twice around
\* the first one, which carries a status in its last round: the queue holds
\* the event of the second creature, then those of the first one.
C31_Witness ==
    /\ pc = "processing"
    /\ history # <<>>
    /\ history[Len(history)].event = StartRound(<<"c2", "c1", "c2">>)
    /\ Len(calls) = 6
    /\ Len(drain) = 4
    /\ Concerns(drain[1]) = "c2"
    /\ drain[2].event = AlterStatistics("c1", RoundStartMark)
    /\ drain[3].event.kind = "AlterStatistics"
    /\ drain[4].event = ClearStatus("c1")

\* C32: the apply of an EndRound visits the actors of the Started set in
\* stored order, running on_round_end, on_end and the objectives check at
\* the RoundEnd checkpoint for each; every callback sees the state Started
\* with the full set, and the state is Ready once the apply is over, while
\* every event the callbacks queued is still waiting.
C32_EndRoundVisitsActorsInOrder ==
    [][(Committed /\ Last.event.kind = "EndRound")
         => LET S == battle.rounds.actors
            IN  /\ battle.rounds.started
                /\ Len(calls') = 3 * Len(S)
                /\ \A i \in 1 .. Len(S) :
                      /\ calls'[3 * i - 2] =
                            Call("on_round_end", S[i], Started(S),
                                 calls'[3 * i - 2].fired)
                      /\ calls'[3 * i - 1] =
                            Call("on_end", S[i], Started(S), <<>>)
                      /\ calls'[3 * i] =
                            Call("check_objectives", "RoundEnd", Started(S),
                                 calls'[3 * i].fired)
                /\ battle'.rounds = Ready
                /\ HeadOfQueue(drain', Queued(calls'))
                /\ Len(drain') = Len(Queued(calls')) + Len(drain) - 1]_vars

\* The round of two creatures ended: the state is Ready and the two events
\* their callbacks fired while it was Started are waiting.
C32_Witness ==
    /\ pc = "processing"
    /\ history # <<>>
    /\ history[Len(history)].event = EndRound
    /\ battle.rounds = Ready
    /\ Len(calls) = 6
    /\ calls[1].rounds = Started(<<"c2", "c1">>)
    /\ Len(drain) = 2
    /\ drain[1].event = AlterStatistics("c2", RoundEndMark)
    /\ drain[2].event = AlterStatistics("c1", RoundEndMark)
    /\ drain[1].at

\* A trigger was fired into the event queue in this step.
Fired == Len(eventQueue'.fires) = Len(eventQueue.fires) + 1

\* The last fire logged after the step.
LastFire == eventQueue'.fires[Len(eventQueue'.fires)]

\* The index in the items of the prototype of the n-th fire.
QueuePosition(items, n) == CHOOSE i \in 1 .. Len(items) : items[i].seq = n

\* The prototype but for its origin.
SameButOrigin(a, b) == [a EXCEPT !.origin = None] = [b EXCEPT !.origin = None]

OutermostOrigin(decorators) ==
    IF decorators = <<>> THEN None
    ELSE Some(decorators[Len(decorators)].value)

\* C34: LinkedQueue sets the origin of a prototype to its own exactly when
\* the prototype arrives with none, Originated always overwrites the
\* origin with its value, and so a prototype built by Originated(o) and
\* fired into LinkedQueue(o') is queued with origin o.
C34_LinkedQueueRespectsOrigin ==
    [][(Fired /\ LastFire.processor.kind = "LinkedQueue")
         => LET queued == eventQueue'.items[Len(eventQueue'.items)]
                arrived == LastFire.prototype
                given == OutermostOrigin(LastFire.decorators)
            IN  /\ arrived.origin = given
                /\ arrived.origin = None
                      => queued.origin = LastFire.processor.origin
                /\ arrived.origin # None => queued.origin = arrived.origin
                /\ given # None => queued.origin = given]_vars

\* The test linked_queue_respects_origin: Originated with the forced
\* origin fired into a LinkedQueue of the next origin; and a trigger with
\* no origin fired into the same LinkedQueue.
C34_Witness ==
    /\ Len(eventQueue.fires) = 2
    /\ eventQueue.fires[1].processor
          = Processor("LinkedQueue", Some(ForcedOrigin + 1))
    /\ eventQueue.fires[1].decorators
          = <<Decorator("Originated", StackedOrigin),
              Decorator("Originated", ForcedOrigin)>>
    /\ eventQueue.items[1].origin = Some(ForcedOrigin)
    /\ eventQueue.fires[2].processor
          = Processor("LinkedQueue", Some(ForcedOrigin + 1))
    /\ eventQueue.fires[2].decorators = <<>>
    /\ eventQueue.items[2].origin = Some(ForcedOrigin + 1)

\* The outputs of the first n logged calls whose bounds differ, in order.
RECURSIVE DistinctOutputs(_)
DistinctOutputs(n) ==
    IF n = 0 THEN <<>>
    ELSE IF entropy.calls[n].low = entropy.calls[n].high
    THEN DistinctOutputs(n - 1)
    ELSE Append(DistinctOutputs(n - 1), entropy.outputs[n])

\* C35: a call of generate(x, x) did not call the generate of the rules and
\* left the model as it was; an entropy object built from the same seed
\* and fed the same calls and resets but for the calls with equal bounds
\* returns the outputs the other calls returned, and ends with the same
\* model.
C35_EqualBoundsLeaveNoTrace ==
    /\ \A call \in entropy.last :
          call.low = call.high
             => /\ call.out.called = None
                /\ call.out.model = call.before
                /\ call.out.output = call.low
    /\ entropy.replica.outputs = DistinctOutputs(entropy.replica.fed)
    /\ (/\ entropy.replica.fed = Len(entropy.calls)
        /\ entropy.replica.applied = Len(history))
          => entropy.replica.entropy.model = battle.entropyModel

\* Under the uniform rules a call with equal bounds came before a call
\* that made the generator step; the replica made only the second one,
\* returned its output and has the model of the battle.
C35_Witness ==
    /\ entropy.rules = "Uniform"
    /\ Len(entropy.calls) = 2
    /\ entropy.calls[1].low = entropy.calls[1].high
    /\ entropy.calls[2].low < entropy.calls[2].high
    /\ \E call \in entropy.last : call.out.model # call.before
    /\ entropy.replica.fed = 2
    /\ entropy.replica.outputs = <<entropy.outputs[2]>>
    /\ entropy.replica.applied = Len(history)
    /\ entropy.replica.entropy.model = battle.entropyModel

\* The registry but for the sinks with the given id.
Without(reg, id) == SelectSeq(reg, LAMBDA sink : sink.id # id)

\* What the claim states of a send of the events start .. end - 1 to the
\* sink id, seen from the state before and the state after.
SentAsStated(id, start, end) ==
    IF \A i \in 1 .. Len(sinks) : sinks[i].id # id
    THEN /\ result' = "EventSinkNotFound"
         /\ catchup'.sent = <<>>
         /\ catchup'.disconnected = <<>>
         /\ sinks' = sinks
    ELSE LET sink == CHOOSE registered \in Range(sinks) : registered.id = id
         IN  IF sink.ok \/ start = end
             THEN /\ result' = "Ok"
                  /\ Len(catchup'.sent) = end - start
                  /\ catchup'.disconnected = <<>>
                  /\ sinks' = sinks
             ELSE /\ result' = "EventSinkError"
                  /\ catchup'.sent = <<[sink |-> id, event |-> start]>>
                  /\ catchup'.disconnected = <<id>>
                  /\ sinks' = Without(sinks, id)
                  /\ Len(sinks') = Len(sinks) - 1

\* C36: a send of events to the sink of an id that no sink has returns
\* EventSinkNotFound and sends nothing; otherwise the events are sent in
\* order and at the first failing send on_disconnect of that sink is
\* invoked once, that sink and no other is removed, none of the remaining
\* events is sent and the error of the sink is returned.
C36_SendStopsAtFirstFailure ==
    [][\A id \in CatchUpSinkIds, start, end \in RangeIds :
          (ValidRange(start, end, Len(history))
           /\ ~SentAsStated(id, start, end))
             => ~SendRange(id, start, end)]_vars

\* Two events were to be sent to a broken sink: the first send failed, the
\* sink is gone and the other sink is still registered.
C36_Witness ==
    /\ result = "EventSinkError"
    /\ Len(history) = MaxRange
    /\ catchup.sent = <<[sink |-> 1, event |-> 0]>>
    /\ catchup.disconnected = <<1>>
    /\ sinks = <<Sink(0, TRUE)>>

\* What the claim states of an add of the sink with a catch-up.
AddedOrUntouched(sink) ==
    \/ /\ result' = "Ok"
       /\ sinks' = Append(sinks, sink)
    \/ /\ result' = "InvalidEventRange"
       /\ sinks' = sinks
       /\ catchup'.sent = <<>>
    \/ /\ result' = "DuplicatedEventSink"
       /\ \E i \in 1 .. Len(sinks) : sinks[i].id = sink.id
       /\ sinks' = sinks
       /\ catchup'.sent = <<>>
    \/ /\ result' = "EventSinkError"
       /\ sinks' = sinks
       /\ catchup'.disconnected = <<sink.id>>

\* C37: add_sink_range and add_sink_from either register the sink or leave
\* the registry exactly as it was: an invalid range and an id already in
\* use register and send nothing, and a sink whose catch-up send fails is
\* removed again.
C37_AddSinkRangeIsAllOrNothing ==
    [][\A sink \in CatchUpSinks :
          ~AddedOrUntouched(sink)
             => \A start, end \in RangeIds :
                   ~(\/ AddSinkRange(sink, start, end)
                     \/ AddSinkFrom(sink, start))]_vars

\* The catch-up of a broken sink failed at the second event of the history
\* on a registry that held one sink, which is all the registry holds.
C37_Witness ==
    /\ result = "EventSinkError"
    /\ Len(history) >= 2
    /\ catchup.sent = <<[sink |-> 1, event |-> 1]>>
    /\ catchup.disconnected = <<1>>
    /\ sinks = <<Sink(0, TRUE)>>

\* C38: the prototype the server makes of a client prototype has the event
\* and the origin of the prototype the client built and no condition,
\* whatever condition the client attached; the server applies it when its
\* event verifies, also when that condition is false on the state of the
\* server.
C38_ClientConditionIsDropped ==
    [][(Running /\ Submitted)
         => /\ Current.event \in trigger.event
            /\ Current.origin = Outermost(trigger.decorators, "Originated")
            /\ Current.condition = None
            /\ verify(battle, Current.event) = "Ok"
                  => /\ Committed
                     /\ Last.event = Current.event
                     /\ Last.origin = Current.origin
                     /\ battle' = apply(battle, Current.event)
            /\ verify(battle, Current.event) # "Ok" => ~Committed]_vars

\* A client fired a StartRound under the condition that a round is in
\* progress, with an origin: the condition was false when the server ran
\* the event, and the round was started.
C38_Witness ==
    /\ pc = "idle"
    /\ trigger.event = {StartRound(<<"c1">>)}
    /\ trigger.decorators = <<Decorator("Originated", ForcedOrigin),
                              Decorator("Conditional", "IsStarted")>>
    /\ Len(history) = 1
    /\ history[1].event = StartRound(<<"c1">>)
    /\ history[1].origin = Some(ForcedOrigin)
    /\ battle.rounds = Started(<<"c1">>)
    /\ result = "Ok"

\* The ids of a StartRound event that name no actor of the battle.
MissingActors(e) == {id \in Range(e.ids) : id \notin battle.actors}

\* The first id of a StartRound event that is not an eligible actor of the
\* battle.
FirstRefused(e) ==
    Head(SelectSeq(e.ids, LAMBDA id : ~(/\ id \in battle.actors
                                        /\ RoundsEligible(battle, id))))

\* The errors the verification of a round event returns.
RoundErrors ==
    {"RoundInProgress", "NoRoundInProgress", "NotAnActor", "EntityNotFound",
     "ActorNotEligible"}

\* C39: no submission of a client makes the server panic.  A StartRound of
\* a client that names an actor the battle does not have is refused with an
\* error of verification, which is EntityNotFound when no round is in
\* progress and the ids before the missing one pass, and an EndRound of a
\* client while no round is in progress is refused with NoRoundInProgress;
\* neither changes the battle or the history.
C39_ClientRightsNeverPanic ==
    [][/\ pc' # "panicked"
       /\ \A player \in Players, event \in RemoteEvents :
             (/\ ProcessClient(player, event)
              /\ \/ event.kind = "StartRound" /\ MissingActors(event) # {}
                 \/ event = EndRound /\ ~battle.rounds.started)
               => /\ pc' = "processing"
                  /\ Head(drain').event = event
       /\ (/\ Running
           /\ Submitted
           /\ Current.event.kind = "StartRound"
           /\ MissingActors(Current.event) # {})
            => /\ result' \in RoundErrors
               /\ (/\ ~battle.rounds.started
                   /\ is_actor(FirstRefused(Current.event))
                   /\ FirstRefused(Current.event) \notin battle.actors)
                     => result' = "EntityNotFound"
               /\ UNCHANGED <<battle, history>>
       /\ (/\ Running
           /\ Submitted
           /\ Current.event = EndRound
           /\ ~battle.rounds.started)
            => /\ result' = "NoRoundInProgress"
               /\ UNCHANGED <<battle, history>>]_vars

\* After a round that clients started and ended, a client submitted a
\* StartRound naming a creature the battle does not have: it was refused
\* with EntityNotFound and the server is idle.
C39_Witness ==
    /\ pc = "idle"
    /\ result = "EntityNotFound"
    /\ refused.prototype = {NewPrototype(StartRound(<<"c9">>))}
    /\ ~battle.rounds.started
    /\ Len(history) = 2
    /\ history[2].event = EndRound

\* The round of no actor is in progress.
EmptyRound == battle.rounds = Started(<<>>)

\* C40: a StartRound without ids submitted while no round is in progress is
\* committed: the state becomes Started with no actor, the count of rounds
\* started grows by one, no callback runs, no event is queued and no entity
\* is acting.  During that round a StartRound is refused with
\* RoundInProgress, and an EndRound is committed, runs no callback, queues
\* no event and sets the state to Ready.
C40_RoundWithoutActors ==
    [][/\ (/\ Running
           /\ Current.event = StartRound(<<>>)
           /\ ~battle.rounds.started)
            => /\ Committed
               /\ Last.event = StartRound(<<>>)
               /\ result' = "Ok"
               /\ battle'.rounds = Started(<<>>)
               /\ battle'.roundsStarted = battle.roundsStarted + 1
               /\ calls' = <<>>
               /\ drain' = Tail(drain)
               /\ \A id \in EntityIds : ~is_acting(battle', id)
       /\ (/\ Running
           /\ Current.event.kind = "StartRound"
           /\ EmptyRound)
            => /\ ~Committed
               /\ result' = "RoundInProgress"
               /\ battle' = battle
       /\ (/\ Running
           /\ Current.event = EndRound
           /\ EmptyRound)
            => /\ Committed
               /\ Last.event = EndRound
               /\ result' = "Ok"
               /\ calls' = <<>>
               /\ drain' = Tail(drain)
               /\ battle'.rounds = Ready
               /\ battle'.roundsStarted = battle.roundsStarted]_vars

\* A round without actors was started and ended, after a StartRound
\* submitted during it was refused: the state is Ready again, one round was
\* started and no callback ran.
C40_Witness ==
    /\ pc = "idle"
    /\ Len(history) = 2
    /\ history[1].event = StartRound(<<>>)
    /\ history[2].event = EndRound
    /\ refused.error = "RoundInProgress"
    /\ refused.nextId = 1
    /\ battle.rounds = Ready
    /\ battle.roundsStarted = 1
    /\ calls = <<>>
    /\ result = "Ok"
====
